---- MODULE Spec2Model ----
(***************************************************************************)
(* Jarvis tool-calling orchestration core: ToolRegistry (tools/registry.py),*)
(* ToolAgent (agent/tool_agent.py), AgentRunner / AgentState               *)
(* (agent/runner.py) and the MemoryStore port (memory/store.py).           *)
(*                                                                         *)
(* Text is modelled as a sequence of tokens (strings); " " is the          *)
(* whitespace token.  An f-string is the concatenation of its pieces.      *)
(***************************************************************************)
EXTENDS Naturals, Integers, Sequences, FiniteSets, TLC

VARIABLES
    config,         \* ToolAgentConfig / AgentConfig of the agent
    kind,           \* which agent class the process runs
    store_mode,     \* memory_store: "none" (None), "ok", "failing" (every call raises)
    session_id,     \* config.session_id
    tools,          \* ToolRegistry._tools
    history,        \* AgentState.history
    pc,             \* position of the process inside the constructor / run
    user_text,      \* stripped user_text of the turn in progress
    messages,       \* local `messages` of _run_with_ollama / _run_with_groq
    loop_count,     \* number of completed iterations of the tool loop
    tool_calls,     \* msg["tool_calls"] of the response being processed
    tc_index,       \* index of the next entry of tool_calls
    result,         \* what the last run() gave back to its caller
    backend_calls,  \* backend requests issued in the current turn, in order
    invoked,        \* ToolRegistry.call invocations of the current turn, in order
    transport_err,  \* str(e) of the backend exceptions caught in the current turn
    mem_sessions,   \* rows of table sessions
    mem_messages,   \* rows of table messages, in insertion order
    mem_tool_events,\* rows of table tool_events, in insertion order
    turns,          \* number of run() calls started
    turn_base,      \* Len(history) when the current turn started
    mem_base,       \* Len(mem_messages) when the current turn started
    run_arg,        \* the argument of the latest run() call
    tool_order,     \* insertion order of the keys of ToolRegistry._tools
    listed,         \* the mapping a caller got from ToolRegistry.list()
    reg_log,        \* registry operations made by a caller, with their outcomes
    utterance,      \* text handed to _needs_tools
    needs,          \* what _needs_tools returned for it
    msg_rows,       \* rows of table messages with their created_at, in insertion order
    fetched,        \* the latest get_session_messages call and what it returned
    conns,          \* per websocket connection: where its handler is, and its message
    running,        \* the handler the event loop is executing, "none" between them
    agent_count,    \* number of agents get_agent() has built
    appends,        \* appends to the shared agent's state and session, in order
    trunc_call      \* a call of truncate_history: arguments and returned list

vars == <<config, kind, store_mode, session_id, tools, history, pc, user_text,
          messages, loop_count, tool_calls, tc_index, result, backend_calls,
          invoked, transport_err, mem_sessions, mem_messages, mem_tool_events,
          turns, turn_base, mem_base, run_arg, tool_order, listed, reg_log,
          utterance, needs, msg_rows, fetched, conns, running, agent_count,
          appends, trunc_call>>

\* the state of the store harness, of the server harness and of the
\* truncate_history harness
storevars == <<msg_rows, fetched>>
servervars == <<conns, running, agent_count, appends>>
truncvars == <<trunc_call>>

\* the state of the harnesses: everything outside the agent and its registry
sidevars == <<tool_order, listed, reg_log, utterance, needs, storevars, servervars,
              truncvars>>

(***************************************************************************)
(* Bounds of the model.                                                    *)
(***************************************************************************)
MaxLoops == 2       \* config.max_tool_loops ranges over 0..MaxLoops
MaxTurns == 1       \* run() is called at most MaxTurns times
MaxWords == 2       \* the router is also asked about every text of up to MaxWords words
MaxOps == 4         \* a caller of the registry makes at most MaxOps operations

(***************************************************************************)
(* Text helpers.                                                           *)
(***************************************************************************)
WS == " "

RECURSIVE LStrip(_)
LStrip(t) == IF t # <<>> /\ Head(t) = WS THEN LStrip(Tail(t)) ELSE t

RECURSIVE RStrip(_)
RStrip(t) ==
    IF t # <<>> /\ t[Len(t)] = WS THEN RStrip(SubSeq(t, 1, Len(t) - 1)) ELSE t

\* str.strip()
Strip(t) == RStrip(LStrip(t))

\* the text a token sequence stands for
RECURSIVE Flat(_)
Flat(t) == IF t = <<>> THEN "" ELSE Head(t) \o Flat(Tail(t))

\* the words of a text
Words(t) == SelectSeq(t, LAMBDA w : w # WS)

\* `needle` occurs in `t` as a run of consecutive tokens
Contains(t, needle) ==
    \E i \in 1..(Len(t) + 1) :
        /\ i + Len(needle) - 1 <= Len(t)
        /\ SubSeq(t, i, i + Len(needle) - 1) = needle

\* some token of `other` occurs in `t`
SharesText(t, other) == \E i \in 1..Len(t) : \E j \in 1..Len(other) : t[i] = other[j]

SYSTEM_PROMPT == <<"SYSTEM_PROMPT">>

EMPTY_INPUT_MSG == <<"Dime qué quieres que haga.">>
NO_RESPONSE_MSG == <<"No generé respuesta.">>
LOOP_LIMIT_MSG == <<"Límite de tool loops alcanzado.">>
RUNNER_NO_KEY_MSG == <<"Falta OPENAI_API_KEY en tu .env.", "Pon tu clave en .env y reinicia.">>
RUNNER_NO_RESPONSE_MSG == <<"No he podido generar respuesta.">>
RUNNER_SAFE_ERR == <<"Error llamando al modelo. Revisa tu API key/modelo o conexión.">>

(***************************************************************************)
(* Values that arrive in a backend's JSON.                                 *)
(***************************************************************************)
JStr(s) == [t |-> "str", v |-> s]
JList(s) == [t |-> "list", v |-> s]      \* the list [s]
JDict(s) == [t |-> "dict", v |-> s]      \* a non-empty mapping, named by s
JNull == [t |-> "null", v |-> "None"]
EmptyDict == [t |-> "dict", v |-> ""]    \* {}

\* hash(x) is defined (dict and list keys raise TypeError: unhashable type)
Hashable(x) == x.t \notin {"list", "dict"}

\* bool(x) of a JSON value
Truthy(x) ==
    CASE x.t = "null" -> FALSE
      [] x.t \in {"str", "dict"} -> x.v # ""
      [] OTHER -> TRUE

\* str(x) inside an f-string
PyStr(x) == IF x.t = "list" THEN "['" \o x.v \o "']" ELSE x.v

\* json.loads on the argument texts of the model: the documents that parse
JsonDocs ==
    [s \in {"{\"command\": \"ls\"}", "[\"mars\"]"} |->
        IF s = "[\"mars\"]" THEN JList("mars") ELSE JDict("command=ls")]

JsonLoads(s) ==
    IF s \in DOMAIN JsonDocs THEN [ok |-> TRUE, value |-> JsonDocs[s]]
    ELSE [ok |-> FALSE, value |-> JNull]

(***************************************************************************)
(* ToolRegistry (tools/registry.py).                                       *)
(***************************************************************************)
\* build_default_registry(): the five tools it registers, keyed by name
DefaultTools == {"shell", "filesystem", "open_app", "run_code", "web_search"}

DefaultRegistry == [n \in DefaultTools |-> [name |-> n, fn |-> "run_" \o n]]

\* the order in which build_default_registry() registers them
DefaultOrder == <<"shell", "filesystem", "open_app", "run_code", "web_search">>

\* ToolRegistry.__init__: self._tools = {}
EmptyMap == [n \in {} |-> ""]

\* no mapping obtained from list() yet
NotListed ==
    [held |-> FALSE, live |-> FALSE, touched |-> FALSE, order |-> <<>>, map |-> EmptyMap]

\* what spec.fn(args) can do: return a mapping (given by its JSON rendering)
\* or raise an Exception
ToolOutcomes ==
    { [kind |-> "return", type |-> "", text |-> <<"{\"returncode\": 0}">>],
      [kind |-> "raise", type |-> "ValueError", text |-> <<"Falta args['command'].">>] }

NoOutcome == [kind |-> "none", type |-> "", text |-> <<>>]

NotFoundError(name) == <<"Tool no encontrada: '", PyStr(name), "'">>

\* the mapping call() returns when the tool function raised e
CaughtToolError(e) == [ok |-> FALSE, result |-> <<>>, error |-> <<e.type, ": ">> \o e.text]

\* call() without its try/except: what the tool function raises leaves call()
RegistryCallUncaught(reg, name, args, outcome) ==
    LET a == IF Truthy(args) THEN args ELSE EmptyDict
        none == [ok |-> FALSE, result |-> <<>>, error |-> <<>>]
    IN  IF ~Hashable(name)
        THEN [raised |-> TRUE, exc |-> <<"TypeError: unhashable type: '", name.t, "'">>,
              ran |-> FALSE, fn_args |-> a, out |-> none]
        ELSE IF name.t # "str" \/ name.v \notin DOMAIN reg
        THEN [raised |-> FALSE, exc |-> <<>>, ran |-> FALSE, fn_args |-> a,
              out |-> [ok |-> FALSE, result |-> <<>>, error |-> NotFoundError(name)]]
        ELSE IF outcome.kind = "return"
        THEN [raised |-> FALSE, exc |-> <<>>, ran |-> TRUE, fn_args |-> a,
              out |-> [ok |-> TRUE, result |-> outcome.text, error |-> <<>>]]
        ELSE [raised |-> TRUE, exc |-> <<outcome.type, ": ">> \o outcome.text,
              ran |-> TRUE, fn_args |-> a, out |-> none]

\* call() looking the tool up with self._tools[name]: an unknown name raises KeyError
RegistryCallKeyError(reg, name, args, outcome) ==
    LET a == IF Truthy(args) THEN args ELSE EmptyDict
        none == [ok |-> FALSE, result |-> <<>>, error |-> <<>>]
    IN  IF ~Hashable(name)
        THEN [raised |-> TRUE, exc |-> <<"TypeError: unhashable type: '", name.t, "'">>,
              ran |-> FALSE, fn_args |-> a, out |-> none]
        ELSE IF name.t # "str" \/ name.v \notin DOMAIN reg
        THEN [raised |-> TRUE, exc |-> <<"KeyError: '", PyStr(name), "'">>,
              ran |-> FALSE, fn_args |-> a, out |-> none]
        ELSE IF outcome.kind = "return"
        THEN [raised |-> FALSE, exc |-> <<>>, ran |-> TRUE, fn_args |-> a,
              out |-> [ok |-> TRUE, result |-> outcome.text, error |-> <<>>]]
        ELSE [raised |-> FALSE, exc |-> <<>>, ran |-> TRUE, fn_args |-> a,
              out |-> CaughtToolError(outcome)]

\* ToolRegistry.call(name, args), `outcome` being what spec.fn does if reached.
\* raised: an exception leaves call(); ran: spec.fn was invoked; fn_args: its
\* argument; out: the returned mapping {ok, result | error}.
RegistryCall(reg, name, args, outcome) ==
    LET a == IF Truthy(args) THEN args ELSE EmptyDict
        none == [ok |-> FALSE, result |-> <<>>, error |-> <<>>]
    IN  IF ~Hashable(name)
        THEN [raised |-> TRUE, exc |-> <<"TypeError: unhashable type: '", name.t, "'">>,
              ran |-> FALSE, fn_args |-> a, out |-> none]
        ELSE IF name.t # "str" \/ name.v \notin DOMAIN reg
        THEN [raised |-> FALSE, exc |-> <<>>, ran |-> FALSE, fn_args |-> a,
              out |-> [ok |-> FALSE, result |-> <<>>, error |-> NotFoundError(name)]]
        ELSE IF outcome.kind = "return"
        THEN [raised |-> FALSE, exc |-> <<>>, ran |-> TRUE, fn_args |-> a,
              out |-> [ok |-> TRUE, result |-> outcome.text, error |-> <<>>]]
        ELSE [raised |-> FALSE, exc |-> <<>>, ran |-> TRUE, fn_args |-> a,
              out |-> CaughtToolError(outcome)]

\* json.dumps(tool_out, ensure_ascii=False) of a mapping returned by call()
JsonDumps(out) ==
    IF out.ok THEN <<"{\"ok\": true, \"result\": ">> \o out.result \o <<"}">>
    ELSE <<"{\"ok\": false, \"error\": \"">> \o out.error \o <<"\"}">>

(***************************************************************************)
(* Intent router (ToolAgent._needs_tools).  A pattern is a set of          *)
(* alternatives; an alternative is the sequence of parts that `.*` joins.  *)
(* A part is matched against whole words.                                  *)
(***************************************************************************)
Lower(w) ==
    CASE w = "Lista" -> "lista"
      [] w = "Abre" -> "abre"
      [] OTHER -> w

LowerText(t) == [i \in 1..Len(t) |-> Lower(t[i])]

Alt1(ws) == { <<w>> : w \in ws }
Alt2(as, bs) == { <<a, b>> : a \in as, b \in bs }

tool_patterns ==
    << Alt1({"ejecuta", "corre", "run", "shell", "terminal", "comando"}),
       Alt1({"lista", "ls", "dir"}) \cup Alt2({"muestra"}, {"archivo", "carpeta"}),
       Alt1({"git", "npm", "pip", "brew", "docker"}),
       Alt2({"crea", "escribe", "lee"}, {"archivo"}),
       Alt2({"abre"}, {"carpeta", "directorio"}),
       Alt2({"borra", "elimina", "delete"}, {"archivo", "carpeta"}),
       Alt1({"abre", "open", "lanza", "launch", "inicia", "arranca"}),
       Alt1({"spotify", "chrome", "safari", "vscode", "finder", "mail", "calendar", "notes"})
           \cup {<<"visual", "studio">>},
       Alt2({"ejecuta"}, {"código"}) \cup Alt2({"corre"}, {"script"}) \cup Alt2({"run"}, {"code"}),
       Alt2({"python", "node", "javascript"}, {"script"}),
       {<<"busca", "en", "web">>, <<"busca", "internet">>, <<"search", "web">>},
       {<<"encuentra", "información", "sobre">>, <<"investiga", "sobre">>},
       {<<"pon", "música">>, <<"reproduce">>, <<"pausa">>, <<"siguiente", "canción">>,
        <<"canción", "anterior">>},
       {<<"sube", "volumen">>, <<"baja", "volumen">>, <<"qué", "está", "sonando">>},
       {<<"qué", "tengo", "hoy">>, <<"qué", "tengo", "mañana">>, <<"eventos", "de">>},
       Alt2({"crea", "añade"}, {"recordatorio"}),
       {<<"envía", "email">>, <<"manda", "correo">>, <<"envía", "mensaje">>},
       {<<"qué", "hay", "en", "pantalla">>, <<"describe", "pantalla">>, <<"mira", "pantalla">>},
       {<<"lee", "pantalla">>, <<"lee", "esto">>, <<"transcribe", "pantalla">>},
       {<<"captura", "pantalla">>, <<"screenshot">>, <<"haz", "captura">>},
       {<<"qué", "ves">>, <<"puedes", "ver">>, <<"analiza", "imagen">>},
       {<<"qué", "dice", "en", "pantalla">>, <<"qué", "texto", "hay">>},
       {<<"mira", "esto">>, <<"observa", "esto">>, <<"fíjate", "en">>} >>

\* the parts of `alt` occur in `ws`, in order, from position `from` on
RECURSIVE PartsFrom(_, _, _)
PartsFrom(alt, ws, from) ==
    IF alt = <<>> THEN TRUE
    ELSE \E i \in from..Len(ws) : ws[i] = Head(alt) /\ PartsFrom(Tail(alt), ws, i + 1)

\* re.search(pattern, text_lower)
Search(pattern, ws) == \E alt \in pattern : PartsFrom(alt, ws, 1)

_needs_tools(text) ==
    LET ws == Words(LowerText(text))
    IN  \E k \in 1..Len(tool_patterns) : Search(tool_patterns[k], ws)

(***************************************************************************)
(* The environment: user inputs, backend responses, backend failures.      *)
(***************************************************************************)
UserInputs ==
    { <<>>,                                   \* empty
      <<WS>>,                                 \* whitespace only
      <<WS, "cuéntame", "un", "chiste">>,     \* pure conversation
      <<"Lista", "los", "archivos", WS>> }    \* matches a tool pattern

\* the argument of run(): a text, or None
RunArgs ==
    { [given |-> TRUE, text |-> t] : t \in UserInputs }
        \cup { [given |-> FALSE, text |-> <<>>] }

NoArg == [given |-> FALSE, text |-> <<>>]

\* str(user_text): a missing text read as the text "None"
OrEmptyStr(arg) == IF arg.given THEN arg.text ELSE <<"None">>

\* (user_text or "")
OrEmpty(arg) == IF arg.given THEN arg.text ELSE <<>>

\* one entry of msg["tool_calls"]
ToolCall(id, name, arguments) ==
    [id |-> id, function |-> [name |-> name, arguments |-> arguments]]

ToolCallLists ==
    { << ToolCall("call_1", JStr("shell"), JDict("command=ls")) >>,
      << ToolCall("call_1", JStr("teleport"), JStr("[\"mars\"]")) >>,
      << ToolCall("call_1", JStr("teleport"), JNull),
         ToolCall("call_2", JStr("shell"), JStr("ls -la")) >>,
      << ToolCall("call_1", JStr("shell"), JStr("{\"command\": \"ls\"}")),
         ToolCall("call_2", JList("teleport"), JDict("to=mars")),
         ToolCall("call_3", JStr("shell"), JDict("command=ls")) >> }

FinalContents == { <<>>, <<WS, "hola", WS>> }

\* a backend exception (connection error, HTTP error status, body that is not JSON)
TransportErrors == { [type |-> "ConnectionError", text |-> <<"Connection refused">>] }

NoError == [type |-> "", text |-> <<>>]

Response(content, tcs) == [kind |-> "ok", content |-> content, tool_calls |-> tcs, err |-> NoError]
Failure(e) == [kind |-> "error", content |-> <<>>, tool_calls |-> <<>>, err |-> e]

\* what a call without tool schemas can give
PlainOutcomes ==
    { Response(c, <<>>) : c \in FinalContents } \cup { Failure(e) : e \in TransportErrors }

\* what a call with tool schemas can give
ToolOutcomesOfBackend ==
    PlainOutcomes
        \cup { Response(<<>>, tcs) : tcs \in ToolCallLists }
        \cup { Response(<<"voy", WS>>, tcs) : tcs \in {l \in ToolCallLists : Len(l) = 1} }

(***************************************************************************)
(* Memory port (ToolAgent._save_message / _save_tool_event on MemoryStore).*)
(***************************************************************************)
NoSession == "None"

\* the guard of _save_message and _save_tool_event
MemoryEnabled == store_mode # "none" /\ config.enable_memory /\ session_id # NoSession

\* _save_message: add_message inside try/except
SaveMessage(rows, role, content) ==
    IF MemoryEnabled /\ store_mode = "ok"
    THEN Append(rows, [session_id |-> session_id, role |-> role, content |-> content])
    ELSE rows

\* _save_tool_event: add_tool_event inside try/except
SaveToolEvent(rows, tool_name, tool_args, tool_result) ==
    IF MemoryEnabled /\ store_mode = "ok"
    THEN Append(rows, [session_id |-> session_id, tool_name |-> tool_name,
                       tool_args |-> tool_args, tool_result |-> tool_result])
    ELSE rows

(***************************************************************************)
(* Agents.                                                                 *)
(***************************************************************************)
ToolAgentConfigs ==
    [ max_tool_loops : 0..MaxLoops, debug : BOOLEAN, use_groq : BOOLEAN,
      enable_memory : {TRUE}, api_key : {"sk"}, groq_api_key : {"gsk"} ]
        \cup
    \* Groq asked for, no Groq key configured
    [ max_tool_loops : {1}, debug : BOOLEAN, use_groq : {TRUE},
      enable_memory : {TRUE}, api_key : {"sk"}, groq_api_key : {""} ]

RunnerConfigs ==
    [ max_tool_loops : {0}, debug : BOOLEAN, use_groq : {FALSE},
      enable_memory : {FALSE}, api_key : {"", "sk"}, groq_api_key : {""} ]

\* memory_store and config.session_id handed to the constructor
MemorySetups ==
    { [store |-> "none", sid |-> NoSession],
      [store |-> "ok", sid |-> NoSession],
      [store |-> "failing", sid |-> NoSession],
      [store |-> "failing", sid |-> "s0"] }

\* self.groq_client is set (the groq package being installed)
groq_client == config.use_groq /\ config.groq_api_key # ""

NoResult == [kind |-> "none", text |-> <<>>, via |-> "none"]

\* no query made yet, no truncate_history call made yet
NoFetch == [sid |-> NoSession, rows |-> <<>>, upto |-> 0]
NoTrunc == [called |-> FALSE, history |-> <<>>, max_messages |-> 0, out |-> <<>>]

\* the store, the web server and truncate_history not in use
StoreAtRest == msg_rows = <<>> /\ fetched = NoFetch
ServerAtRest == conns = <<>> /\ running = "none" /\ agent_count = 0 /\ appends = <<>>
TruncAtRest == trunc_call = NoTrunc

Init ==
    /\ kind \in {"ToolAgent", "AgentRunner"}
    /\ \/ kind = "ToolAgent" /\ config \in ToolAgentConfigs
          /\ \E m \in MemorySetups : store_mode = m.store /\ session_id = m.sid
       \/ kind = "AgentRunner" /\ config \in RunnerConfigs
          /\ store_mode = "none" /\ session_id = NoSession
    /\ tools = DefaultRegistry
    /\ history = <<>>
    /\ pc = "new"
    /\ user_text = <<>>
    /\ messages = <<>>
    /\ loop_count = 0
    /\ tool_calls = <<>>
    /\ tc_index = 0
    /\ result = NoResult
    /\ backend_calls = <<>>
    /\ invoked = <<>>
    /\ transport_err = <<>>
    /\ mem_sessions = {}
    /\ mem_messages = <<>>
    /\ mem_tool_events = <<>>
    /\ turns = 0
    /\ turn_base = 0
    /\ mem_base = 0
    /\ run_arg = NoArg
    /\ tool_order = DefaultOrder
    /\ listed = NotListed
    /\ reg_log = <<>>
    /\ utterance = <<>>
    /\ needs = "unasked"
    /\ StoreAtRest /\ ServerAtRest /\ TruncAtRest

\* a constructor that leaves the creation of the session to the first turn
ConstructWithoutSession ==
    /\ pc = "new"
    /\ pc' = "idle"
    /\ UNCHANGED <<config, kind, store_mode, session_id, tools, history, user_text,
                   messages, loop_count, tool_calls, tc_index, result, backend_calls,
                   invoked, transport_err, mem_sessions, mem_messages, mem_tool_events,
                   turns, turn_base, mem_base, run_arg>>
    /\ UNCHANGED sidevars

\* ToolAgent.__init__ / AgentRunner.__init__
Construct ==
    /\ pc = "new"
    /\ IF kind = "ToolAgent" /\ store_mode # "none" /\ config.enable_memory
          /\ session_id = NoSession
       THEN IF store_mode = "ok"
            THEN /\ session_id' = "s1"
                 /\ mem_sessions' = mem_sessions \cup {"s1"}
                 /\ pc' = "idle"
            ELSE /\ pc' = "ctor_failed"
                 /\ UNCHANGED <<session_id, mem_sessions>>
       ELSE /\ pc' = "idle"
            /\ UNCHANGED <<session_id, mem_sessions>>
    /\ UNCHANGED <<config, kind, store_mode, tools, history, user_text, messages,
                   loop_count, tool_calls, tc_index, result, backend_calls, invoked,
                   transport_err, mem_messages, mem_tool_events, turns, turn_base,
                   mem_base, run_arg>>
    /\ UNCHANGED sidevars

\* ToolAgent.build_messages / AgentRunner.build_messages
build_messages(hist, text) ==
    <<[role |-> "system", content |-> SYSTEM_PROMPT]>> \o hist
        \o <<[role |-> "user", content |-> text]>>

\* the response text handed on as it came
FinalTextRaw(content) == content

\* content = msg.get("content", "").strip(); content or "No generé respuesta."
FinalText(content) == IF Strip(content) # <<>> THEN Strip(content) ELSE NO_RESPONSE_MSG

\* f"Error Ollama: {e}"
OllamaError(e) == <<"Error Ollama: ">> \o e.text

\* state.add_assistant(text); _save_message("assistant", text); return text
ReturnAssistant(text, via) ==
    /\ history' = Append(history, [role |-> "assistant", content |-> text])
    /\ mem_messages' = SaveMessage(mem_messages, "assistant", text)
    /\ result' = [kind |-> "return", text |-> text, via |-> via]
    /\ pc' = "idle"
    /\ messages' = <<>>
    /\ loop_count' = 0
    /\ tool_calls' = <<>>
    /\ tc_index' = 0

\* ToolAgent.run(user_text) up to the dispatch to _run_with_groq / _run_with_ollama
Run ==
    /\ pc = "idle" /\ kind = "ToolAgent" /\ turns < MaxTurns
    /\ turns' = turns + 1
    /\ turn_base' = Len(history)
    /\ mem_base' = Len(mem_messages)
    /\ backend_calls' = <<>>
    /\ invoked' = <<>>
    /\ transport_err' = <<>>
    /\ \E arg \in RunArgs :
        LET text == Strip(OrEmpty(arg)) IN
        /\ run_arg' = arg
        /\ IF text = <<>>
           THEN /\ result' = [kind |-> "return", text |-> EMPTY_INPUT_MSG, via |-> "empty"]
                /\ UNCHANGED <<history, mem_messages, pc, user_text, messages, loop_count>>
           ELSE /\ history' = Append(history, [role |-> "user", content |-> text])
                /\ mem_messages' = SaveMessage(mem_messages, "user", text)
                /\ user_text' = text
                /\ messages' = build_messages(history', text)
                /\ loop_count' = 0
                /\ result' = NoResult
                /\ pc' = IF _needs_tools(text) THEN "loop"
                         ELSE IF groq_client /\ config.use_groq THEN "groq"
                         ELSE "plain"
    /\ UNCHANGED <<config, kind, store_mode, session_id, tools, tool_calls, tc_index,
                   mem_sessions, mem_tool_events>>
    /\ UNCHANGED sidevars

\* the record of one backend request, with the message list it carries, and of
\* its outcome o
Exchange(backend, with_tools, o) ==
    [backend |-> backend, tools |-> with_tools, sent |-> messages,
     reply |-> IF o.kind = "error" THEN "error"
               ELSE IF with_tools /\ o.tool_calls # <<>> THEN "tool_calls" ELSE "final",
     content |-> o.content, requested |-> o.tool_calls, err |-> o.err]

\* _run_with_groq reporting a failed call as the answer instead of falling back
GroqCallNoFallback ==
    /\ pc = "groq"
    /\ \E o \in PlainOutcomes :
        /\ backend_calls' = Append(backend_calls, Exchange("groq", FALSE, o))
        /\ IF o.kind = "ok"
           THEN /\ ReturnAssistant(FinalText(o.content), "final")
                /\ UNCHANGED transport_err
           ELSE /\ ReturnAssistant(<<"Error Groq: ">> \o o.err.text, "error")
                /\ transport_err' = Append(transport_err, o.err.text)
    /\ UNCHANGED <<config, kind, store_mode, session_id, tools, user_text, invoked,
                   mem_sessions, mem_tool_events, turns, turn_base, mem_base, run_arg>>
    /\ UNCHANGED sidevars

\* ToolAgent._run_with_groq: the chat.completions call and what follows it
GroqCall ==
    /\ pc = "groq"
    /\ \E o \in PlainOutcomes :
        /\ backend_calls' = Append(backend_calls, Exchange("groq", FALSE, o))
        /\ IF o.kind = "ok"
           THEN /\ ReturnAssistant(FinalText(o.content), "final")
                /\ UNCHANGED transport_err
           ELSE \* except Exception: return self._run_with_ollama(user_text, use_tools=False)
                /\ transport_err' = Append(transport_err, o.err.text)
                /\ messages' = build_messages(history, user_text)
                /\ pc' = "plain"
                /\ UNCHANGED <<history, mem_messages, result, loop_count, tool_calls,
                               tc_index>>
    /\ UNCHANGED <<config, kind, store_mode, session_id, tools, user_text, invoked,
                   mem_sessions, mem_tool_events, turns, turn_base, mem_base, run_arg>>
    /\ UNCHANGED sidevars

\* ToolAgent._run_with_ollama(use_tools=False)
OllamaPlain ==
    /\ pc = "plain"
    /\ \E o \in PlainOutcomes :
        /\ backend_calls' = Append(backend_calls, Exchange("ollama", FALSE, o))
        /\ IF o.kind = "ok"
           THEN /\ ReturnAssistant(FinalText(o.content), "final")
                /\ UNCHANGED transport_err
           ELSE /\ ReturnAssistant(OllamaError(o.err), "error")
                /\ transport_err' = Append(transport_err, o.err.text)
    /\ UNCHANGED <<config, kind, store_mode, session_id, tools, user_text, invoked,
                   mem_sessions, mem_tool_events, turns, turn_base, mem_base, run_arg>>
    /\ UNCHANGED sidevars

\* the tool loop running range(max_tool_loops + 1)
OllamaStepOneMore ==
    /\ pc = "loop" /\ loop_count < config.max_tool_loops + 1
    /\ \E o \in ToolOutcomesOfBackend :
        /\ backend_calls' = Append(backend_calls, Exchange("ollama", TRUE, o))
        /\ IF o.kind = "error"
           THEN /\ ReturnAssistant(OllamaError(o.err), "error")
                /\ transport_err' = Append(transport_err, o.err.text)
           ELSE IF o.tool_calls = <<>>
           THEN /\ ReturnAssistant(FinalText(o.content), "final")
                /\ UNCHANGED transport_err
           ELSE /\ messages' = Append(messages,
                       [role |-> "assistant", content |-> Strip(o.content),
                        tool_calls |-> o.tool_calls])
                /\ tool_calls' = o.tool_calls
                /\ tc_index' = 1
                /\ pc' = "tools"
                /\ UNCHANGED <<history, mem_messages, result, loop_count, transport_err>>
    /\ UNCHANGED <<config, kind, store_mode, session_id, tools, user_text, invoked,
                   mem_sessions, mem_tool_events, turns, turn_base, mem_base, run_arg>>
    /\ UNCHANGED sidevars

\* one pass of `for loop_count in range(max_tool_loops)`: the request and the
\* handling of the response up to the `for tc in tool_calls` loop
OllamaStep ==
    /\ pc = "loop" /\ loop_count < config.max_tool_loops
    /\ \E o \in ToolOutcomesOfBackend :
        /\ backend_calls' = Append(backend_calls, Exchange("ollama", TRUE, o))
        /\ IF o.kind = "error"
           THEN /\ ReturnAssistant(OllamaError(o.err), "error")
                /\ transport_err' = Append(transport_err, o.err.text)
           ELSE IF o.tool_calls = <<>>
           THEN /\ ReturnAssistant(FinalText(o.content), "final")
                /\ UNCHANGED transport_err
           ELSE /\ messages' = Append(messages,
                       [role |-> "assistant", content |-> Strip(o.content),
                        tool_calls |-> o.tool_calls])
                /\ tool_calls' = o.tool_calls
                /\ tc_index' = 1
                /\ pc' = "tools"
                /\ UNCHANGED <<history, mem_messages, result, loop_count, transport_err>>
    /\ UNCHANGED <<config, kind, store_mode, session_id, tools, user_text, invoked,
                   mem_sessions, mem_tool_events, turns, turn_base, mem_base, run_arg>>
    /\ UNCHANGED sidevars

\* json.loads(tool_args_raw) / {"_raw": tool_args_raw} for a str payload
ParseArgs(raw) ==
    IF raw.t = "str"
    THEN IF JsonLoads(raw.v).ok THEN JsonLoads(raw.v).value ELSE JDict("_raw=" \o raw.v)
    ELSE raw

\* a JSON value that is not an object: it has no .get
NotAMapping(x) == "t" \in DOMAIN x

\* 'str' object has no attribute 'get'
NoGetError(x) ==
    <<"AttributeError: '", IF x.t = "null" THEN "NoneType" ELSE x.t,
      "' object has no attribute 'get'">>

\* func = tc.get("function", {})
FunctionOf(tc) == IF "function" \in DOMAIN tc THEN tc.function ELSE EmptyMap

\* tool_name = func.get("name", "")
ToolNameOf(func) == IF "name" \in DOMAIN func THEN func.name ELSE JStr("")

\* tool_args_raw = func.get("arguments", {})
ToolArgsRawOf(func) == IF "arguments" \in DOMAIN func THEN func.arguments ELSE EmptyDict

\* the AttributeError of tc.get / func.get, if the entry makes one
EntryError(tc) ==
    IF NotAMapping(tc) THEN NoGetError(tc)
    ELSE IF NotAMapping(FunctionOf(tc)) THEN NoGetError(FunctionOf(tc))
    ELSE <<>>

\* one pass of `for tc in tool_calls`
ExecTool ==
    /\ pc = "tools"
    /\ LET tc == tool_calls[tc_index]
           bad == EntryError(tc) # <<>>
           func == IF bad THEN EmptyMap ELSE FunctionOf(tc)
           tool_name == ToolNameOf(func)
           tool_args == ParseArgs(ToolArgsRawOf(func))
       IN \E outcome \in ToolOutcomes :
           LET r == IF bad
                    THEN [raised |-> TRUE, exc |-> EntryError(tc), ran |-> FALSE]
                    ELSE RegistryCall(tools, tool_name, tool_args, outcome)
           IN
           /\ invoked' =
                IF bad THEN invoked
                ELSE Append(invoked,
                       [name |-> tool_name, args |-> tool_args, fn_args |-> r.fn_args,
                        ran |-> r.ran, fn_did |-> IF r.ran THEN outcome ELSE NoOutcome,
                        raised |-> r.raised, out |-> r.out,
                        id |-> IF "id" \in DOMAIN tc THEN tc.id ELSE "",
                        resp |-> Len(backend_calls), pos |-> tc_index])
           /\ IF r.raised
              THEN \* the exception leaves run()
                   /\ result' = [kind |-> "raise", text |-> r.exc, via |-> "exception"]
                   /\ pc' = "idle"
                   /\ messages' = <<>>
                   /\ loop_count' = 0
                   /\ tool_calls' = <<>>
                   /\ tc_index' = 0
                   /\ UNCHANGED mem_tool_events
              ELSE /\ mem_tool_events' =
                        SaveToolEvent(mem_tool_events, tool_name, tool_args, r.out)
                   /\ messages' = Append(messages,
                        [role |-> "tool", content |-> JsonDumps(r.out)])
                   /\ IF tc_index < Len(tool_calls)
                      THEN /\ tc_index' = tc_index + 1
                           /\ UNCHANGED <<pc, loop_count, tool_calls>>
                      ELSE /\ tc_index' = 0
                           /\ tool_calls' = <<>>
                           /\ loop_count' = loop_count + 1
                           /\ pc' = "loop"
                   /\ UNCHANGED result
    /\ UNCHANGED <<config, kind, store_mode, session_id, tools, history, user_text,
                   backend_calls, transport_err, mem_sessions, mem_messages, turns,
                   turn_base, mem_base, run_arg>>
    /\ UNCHANGED sidevars

\* the code after the for loop of _run_with_ollama
LoopLimit ==
    /\ pc = "loop" /\ loop_count >= config.max_tool_loops
    /\ ReturnAssistant(LOOP_LIMIT_MSG, "limit")
    /\ UNCHANGED <<config, kind, store_mode, session_id, tools, user_text, backend_calls,
                   invoked, transport_err, mem_sessions, mem_tool_events, turns,
                   turn_base, mem_base, run_arg>>
    /\ UNCHANGED sidevars

\* f"Error llamando al modelo: {type(e).__name__}: {e}"
RunnerError(e) == <<"Error llamando al modelo: ", e.type, ": ">> \o e.text

\* (text or "").strip() or "No he podido generar respuesta."
RunnerFinalText(content) ==
    IF Strip(content) # <<>> THEN Strip(content) ELSE RUNNER_NO_RESPONSE_MSG

\* the text AgentRunner.run returns for a backend exception
RunnerFailureText(e) == IF config.debug THEN RunnerError(e) ELSE RUNNER_SAFE_ERR

\* AgentRunner.run(user_text)
RunnerRun ==
    /\ pc = "idle" /\ kind = "AgentRunner" /\ turns < MaxTurns
    /\ turns' = turns + 1
    /\ turn_base' = Len(history)
    /\ \E arg \in RunArgs :
        LET text == Strip(OrEmpty(arg))
            withUser == Append(history, [role |-> "user", content |-> text])
            reply(t, via) ==
                /\ history' = Append(withUser, [role |-> "assistant", content |-> t])
                /\ result' = [kind |-> "return", text |-> t, via |-> via]
        IN  /\ run_arg' = arg
            /\ IF text = <<>>
               THEN /\ result' = [kind |-> "return", text |-> EMPTY_INPUT_MSG, via |-> "empty"]
                    /\ backend_calls' = <<>>
                    /\ transport_err' = <<>>
                    /\ UNCHANGED history
               ELSE IF config.api_key = ""
               THEN /\ reply(RUNNER_NO_KEY_MSG, "nokey")
                    /\ backend_calls' = <<>>
                    /\ transport_err' = <<>>
               ELSE \E o \in PlainOutcomes :
                       /\ backend_calls' =
                            <<[Exchange("openai", FALSE, o)
                                 EXCEPT !.sent = build_messages(withUser, text)]>>
                       /\ IF o.kind = "ok"
                          THEN /\ reply(RunnerFinalText(o.content), "final")
                               /\ transport_err' = <<>>
                          ELSE /\ reply(RunnerFailureText(o.err), "error")
                               /\ transport_err' = <<o.err.text>>
    /\ UNCHANGED <<config, kind, store_mode, session_id, tools, pc, user_text, messages,
                   loop_count, tool_calls, tc_index, invoked, mem_sessions, mem_messages,
                   mem_tool_events, mem_base>>
    /\ UNCHANGED sidevars

Next ==
    \/ Construct
    \/ Run
    \/ GroqCall
    \/ OllamaPlain
    \/ OllamaStep
    \/ ExecTool
    \/ LoopLimit
    \/ RunnerRun

Spec == Init /\ [][Next]_vars

\* a turn in progress keeps executing: its steps are consecutive statements
TurnStep == GroqCall \/ OllamaPlain \/ OllamaStep \/ ExecTool \/ LoopLimit

FairSpec == Spec /\ WF_vars(TurnStep)

\* agent.state.clear() by the caller between two turns (the /reset command);
\* the turn before it is over and done with: its records are dropped
Reset ==
    /\ pc = "idle" /\ history # <<>>
    /\ history' = <<>>
    /\ result' = NoResult
    /\ turn_base' = 0
    /\ mem_base' = Len(mem_messages)
    /\ backend_calls' = <<>>
    /\ invoked' = <<>>
    /\ transport_err' = <<>>
    /\ run_arg' = NoArg
    /\ user_text' = <<>>
    /\ UNCHANGED <<config, kind, store_mode, session_id, tools, pc, messages,
                   loop_count, tool_calls, tc_index, mem_sessions, mem_messages,
                   mem_tool_events, turns>>
    /\ UNCHANGED sidevars

\* a session at the command line (run_cli): turns and /reset commands
CliNext == Next \/ Reset

CliSpec == Init /\ [][CliNext]_vars

(***************************************************************************)
(* Backend responses that arrive (HTTP 200, valid JSON) but do not have    *)
(* the shape the data model gives them.                                    *)
(***************************************************************************)
Shapes == {"content_null", "entry_not_a_mapping", "function_null", "no_function", "no_name"}

\* the "message" of such a response
Unshaped(shape) ==
    CASE shape = "content_null" -> Response(JNull, <<>>)
      [] shape = "entry_not_a_mapping" -> Response(<<>>, <<JStr("shell")>>)
      [] shape = "function_null" -> Response(<<>>, <<[id |-> "call_1", function |-> JNull]>>)
      [] shape = "no_function" -> Response(<<>>, <<[id |-> "call_1"]>>)
      [] shape = "no_name" ->
            Response(<<>>, <<[id |-> "call_1",
                              function |-> [arguments |-> JDict("command=ls")]]>>)

\* None.strip()
NoStripError ==
    [type |-> "AttributeError", text |-> <<"'NoneType' object has no attribute 'strip'">>]

\* one pass of the tool loop whose response is one of these: msg.get("content",
\* "").strip() and what follows it are outside the try block
OllamaStepUnshaped ==
    /\ pc = "loop" /\ loop_count < config.max_tool_loops
    /\ \E shape \in Shapes :
        LET o == Unshaped(shape) IN
        /\ backend_calls' = Append(backend_calls, Exchange("ollama", TRUE, o))
        /\ IF shape = "content_null"
           THEN \* the exception leaves run()
                /\ result' = [kind |-> "raise",
                              text |-> <<NoStripError.type, ": ">> \o NoStripError.text,
                              via |-> "exception"]
                /\ pc' = "idle"
                /\ messages' = <<>>
                /\ loop_count' = 0
                /\ UNCHANGED <<tool_calls, tc_index>>
           ELSE /\ messages' = Append(messages,
                       [role |-> "assistant", content |-> <<>>,
                        tool_calls |-> o.tool_calls])
                /\ tool_calls' = o.tool_calls
                /\ tc_index' = 1
                /\ pc' = "tools"
                /\ UNCHANGED <<result, loop_count>>
    /\ UNCHANGED <<config, kind, store_mode, session_id, tools, history, user_text,
                   invoked, transport_err, mem_sessions, mem_messages, mem_tool_events,
                   turns, turn_base, mem_base, run_arg>>
    /\ UNCHANGED sidevars

\* _run_with_ollama(use_tools=False) given a null content: None.strip() is
\* inside the try block, the except clause answers
OllamaPlainUnshaped ==
    /\ pc = "plain"
    /\ backend_calls' =
          Append(backend_calls, Exchange("ollama", FALSE, Unshaped("content_null")))
    /\ ReturnAssistant(OllamaError(NoStripError), "error")
    /\ transport_err' = Append(transport_err, NoStripError.text)
    /\ UNCHANGED <<config, kind, store_mode, session_id, tools, user_text, invoked,
                   mem_sessions, mem_tool_events, turns, turn_base, mem_base, run_arg>>
    /\ UNCHANGED sidevars

\* _run_with_groq given a null content: (msg.content or "").strip() or the
\* fixed text
GroqCallUnshaped ==
    /\ pc = "groq"
    /\ backend_calls' =
          Append(backend_calls, Exchange("groq", FALSE, Unshaped("content_null")))
    /\ ReturnAssistant(NO_RESPONSE_MSG, "final")
    /\ UNCHANGED <<config, kind, store_mode, session_id, tools, user_text, invoked,
                   transport_err, mem_sessions, mem_tool_events, turns, turn_base,
                   mem_base, run_arg>>
    /\ UNCHANGED sidevars

\* the agent with a backend that answers in any shape
WireNext ==
    \/ Next
    \/ OllamaStepUnshaped
    \/ OllamaPlainUnshaped
    \/ GroqCallUnshaped

WireSpec == Init /\ [][WireNext]_vars

(***************************************************************************)
(* The intent router on its own: _needs_tools asked about one utterance.   *)
(* The words of these utterances are such that matching a pattern part     *)
(* against whole words is what re.search does on the text.                 *)
(***************************************************************************)
RouterWords == {"Lista", "muestra", "archivo", "el", "list", "files", "joke"}

RouterInputs ==
    { <<"list", "files", "in", "this", "folder">>, <<"tell", "me", "a", "joke">> }
        \cup UNION { [1..n -> RouterWords] : n \in 0..MaxWords }

\* the agent at rest, as the constructor leaves it
AtRest ==
    /\ kind = "ToolAgent"
    /\ config \in {c \in ToolAgentConfigs : c.max_tool_loops = 1 /\ ~c.use_groq}
    /\ store_mode = "none" /\ session_id = NoSession
    /\ history = <<>> /\ pc = "idle" /\ user_text = <<>> /\ messages = <<>>
    /\ loop_count = 0 /\ tool_calls = <<>> /\ tc_index = 0 /\ result = NoResult
    /\ backend_calls = <<>> /\ invoked = <<>> /\ transport_err = <<>>
    /\ mem_sessions = {} /\ mem_messages = <<>> /\ mem_tool_events = <<>>
    /\ turns = 0 /\ turn_base = 0 /\ mem_base = 0 /\ run_arg = NoArg

agentvars ==
    <<config, kind, store_mode, session_id, history, pc, user_text, messages,
      loop_count, tool_calls, tc_index, result, backend_calls, invoked, transport_err,
      mem_sessions, mem_messages, mem_tool_events, turns, turn_base, mem_base, run_arg>>

RouterInit ==
    /\ AtRest
    /\ tools = DefaultRegistry /\ tool_order = DefaultOrder
    /\ listed = NotListed /\ reg_log = <<>>
    /\ utterance \in RouterInputs
    /\ needs = "unasked"
    /\ StoreAtRest /\ ServerAtRest /\ TruncAtRest

\* needs_tools = self._needs_tools(user_text)
Classify ==
    /\ needs = "unasked"
    /\ needs' = IF _needs_tools(utterance) THEN "tools" ELSE "conversation"
    /\ UNCHANGED <<agentvars, storevars, servervars, truncvars, tools, tool_order, listed, reg_log, utterance>>

RouterNext == Classify

RouterSpec == RouterInit /\ [][RouterNext]_vars

(***************************************************************************)
(* The registry on its own: a caller registers tools, takes list(), writes *)
(* into the mapping it got, calls tools and projects the schemas.          *)
(* A dict is its mapping together with the insertion order of its keys.    *)
(***************************************************************************)
\* one entry of ToolSpec.schema: field name and its free-text hint
Hint(field, desc) == [field |-> field, desc |-> desc]

ShellSpec ==
    [name |-> <<"shell">>, description |-> "Ejecuta comandos en la terminal (macOS).",
     schema |-> << Hint("command", <<"str", "(", "obligatorio", ")">>),
                   Hint("timeout_sec", <<"int", "(", "opcional", ")">>),
                   Hint("env", <<"dict", "(", "opcional", ")">>),
                   Hint("shell", <<"bool", "(", "opcional", ")">>) >>,
     fn |-> "run_shell"]

\* the ToolSpec values a caller registers
ToolSpecs ==
    { ShellSpec,
      [name |-> <<"shell">>, description |-> "otra", schema |-> <<>>, fn |-> "other"],
      [name |-> <<WS, "shell">>, description |-> "otra", schema |-> <<>>, fn |-> "padded"],
      [name |-> <<"echo", WS>>, description |-> "eco", schema |-> <<>>, fn |-> "echo"],
      [name |-> <<WS>>, description |-> "sin nombre", schema |-> <<>>, fn |-> "blank"] }

\* what a caller writes into the mapping list() gave it
GhostSpec == [name |-> <<"ghost">>, description |-> "x", schema |-> <<>>, fn |-> "ghost"]

\* d[key] = value on a dict (mapping, order)
DictSet(map, order, key, value) ==
    [map |-> [n \in DOMAIN map \cup {key} |-> IF n = key THEN value ELSE map[n]],
     order |-> IF key \in DOMAIN map THEN order ELSE Append(order, key)]

\* del d[key]
DictDel(map, order, key) ==
    [map |-> [n \in DOMAIN map \ {key} |-> map[n]],
     order |-> SelectSeq(order, LAMBDA n : n # key)]

\* register() without the duplicate check: a later spec replaces the earlier one
registerOverwrite(reg, order, spec) ==
    LET name == Flat(Strip(spec.name)) IN
    IF name = ""
    THEN [raised |-> TRUE, err |-> <<"ValueError: ", "ToolSpec.name no puede estar vacío.">>,
          reg |-> reg, order |-> order]
    ELSE [raised |-> FALSE, err |-> <<>>,
          reg |-> DictSet(reg, order, name, spec).map,
          order |-> DictSet(reg, order, name, spec).order]

\* ToolRegistry.register(spec) on the dict (reg, order)
register(reg, order, spec) ==
    LET name == Flat(Strip(spec.name)) IN
    IF name = ""
    THEN [raised |-> TRUE, err |-> <<"ValueError: ", "ToolSpec.name no puede estar vacío.">>,
          reg |-> reg, order |-> order]
    ELSE IF name \in DOMAIN reg
    THEN [raised |-> TRUE,
          err |-> <<"ValueError: ", "La tool '", name, "' ya está registrada.">>,
          reg |-> reg, order |-> order]
    ELSE [raised |-> FALSE, err |-> <<>>,
          reg |-> DictSet(reg, order, name, spec).map,
          order |-> DictSet(reg, order, name, spec).order]

\* list() handing out self._tools itself
registry_list_live(reg, order) ==
    [held |-> TRUE, live |-> TRUE, touched |-> FALSE, order |-> order, map |-> reg]

\* ToolRegistry.list(): dict(self._tools), a new dict with the same items
registry_list(reg, order) ==
    [held |-> TRUE, live |-> FALSE, touched |-> FALSE, order |-> order, map |-> reg]

\* `word` in desc_str.lower()
InHint(word, desc) == \E i \in 1..Len(desc) : LowerText(desc)[i] = word

\* the JSON type _tools_for_ollama infers from a hint
FieldType(desc) ==
    IF InHint("int", desc) THEN "integer"
    ELSE IF InHint("bool", desc) THEN "boolean"
    ELSE "string"

\* the schema of one tool
ToolSchema(spec) ==
    LET properties ==
            [i \in 1..Len(spec.schema) |->
                [field |-> spec.schema[i].field,
                 type |-> FieldType(spec.schema[i].desc),
                 description |-> spec.schema[i].desc]]
        marked == SelectSeq(spec.schema, LAMBDA h : InHint("obligatorio", h.desc))
        required == [i \in 1..Len(marked) |-> marked[i].field]
    IN  [type |-> "function",
         function |->
            [name |-> Flat(spec.name),
             description |-> spec.description,
             parameters |->
                IF properties # <<>>
                THEN [type |-> "object", properties |-> properties, required |-> required]
                ELSE [type |-> "object"]]]

\* a projection that numbers its outputs
tools_for_ollama_numbered(reg, order) ==
    [i \in 1..Len(order) |->
        [type |-> "function " \o ToString(Len(reg_log)),
         function |-> ToolSchema(reg[order[i]]).function]]

\* ToolAgent._tools_for_ollama over the dict (reg, order) of the registry
_tools_for_ollama(reg, order) ==
    [i \in 1..Len(order) |-> ToolSchema(reg[order[i]])]

RegistryInit ==
    /\ AtRest
    /\ tools = EmptyMap /\ tool_order = <<>>
    /\ listed = NotListed /\ reg_log = <<>>
    /\ utterance = <<>> /\ needs = "unasked"
    /\ StoreAtRest /\ ServerAtRest /\ TruncAtRest

\* one entry of reg_log: the operation, its argument, whether it raised, what
\* it returned, the tool function it ran, and the registry after it
LogEntry(op, arg, raised, out, fn, reg, order) ==
    [op |-> op, arg |-> arg, raised |-> raised, out |-> out, fn |-> fn,
     reg |-> reg, order |-> order]

\* registry.register(spec)
Register ==
    /\ Len(reg_log) < MaxOps
    /\ \E spec \in ToolSpecs :
        LET r == register(tools, tool_order, spec) IN
        /\ tools' = r.reg
        /\ tool_order' = r.order
        /\ reg_log' = Append(reg_log,
              LogEntry("register", spec, r.raised, r.err, "none", r.reg, r.order))
    /\ UNCHANGED <<agentvars, storevars, servervars, truncvars, listed, utterance, needs>>

\* d = registry.list()
List ==
    /\ Len(reg_log) < MaxOps
    /\ listed' = registry_list(tools, tool_order)
    /\ reg_log' = Append(reg_log,
          LogEntry("list", "", FALSE, [map |-> listed'.map, order |-> listed'.order],
                   "none", tools, tool_order))
    /\ UNCHANGED <<agentvars, storevars, servervars, truncvars, tools, tool_order, utterance, needs>>

\* the writes a caller makes to d: d["ghost"] = spec, d[k] = spec, del d[k]
Writes(d) ==
    { [kind |-> "set", key |-> k] : k \in DOMAIN d.map \cup {"ghost"} }
        \cup { [kind |-> "del", key |-> k] : k \in DOMAIN d.map }

\* the dict d after the write w
Written(d, w) ==
    IF w.kind = "set" THEN DictSet(d.map, d.order, w.key, GhostSpec)
    ELSE DictDel(d.map, d.order, w.key)

\* a write to the mapping obtained from list(); it lands in self._tools too
\* exactly when that mapping is the same object
MutateListed ==
    /\ Len(reg_log) < MaxOps
    /\ listed.held
    /\ \E w \in Writes(listed) :
        LET d == Written(listed, w) IN
        /\ listed' = [listed EXCEPT !.map = d.map, !.order = d.order, !.touched = TRUE]
        /\ IF listed.live
           THEN tools' = d.map /\ tool_order' = d.order
           ELSE UNCHANGED <<tools, tool_order>>
        /\ reg_log' = Append(reg_log,
              LogEntry("write", w, FALSE, "", "none", tools', tool_order'))
    /\ UNCHANGED <<agentvars, storevars, servervars, truncvars, utterance, needs>>

\* registry.call(name, args)
Call ==
    /\ Len(reg_log) < MaxOps
    /\ \E name \in {"shell", "ghost"}, outcome \in ToolOutcomes :
        LET r == RegistryCall(tools, JStr(name), JDict("command=ls"), outcome) IN
        /\ reg_log' = Append(reg_log,
              LogEntry("call", name, r.raised, r.out,
                       IF r.ran THEN tools[name].fn ELSE "none", tools, tool_order))
    /\ UNCHANGED <<agentvars, storevars, servervars, truncvars, tools, tool_order, listed, utterance, needs>>

\* tools = self._tools_for_ollama()
Project ==
    /\ Len(reg_log) < MaxOps
    /\ reg_log' = Append(reg_log,
          LogEntry("project", "", FALSE,
                   _tools_for_ollama(registry_list(tools, tool_order).map,
                                     registry_list(tools, tool_order).order),
                   "none", tools, tool_order))
    /\ UNCHANGED <<agentvars, storevars, servervars, truncvars, tools, tool_order, listed, utterance, needs>>

\* registry.call(tool_name, tool_args) with a name the backend took from the
\* schemas _tools_for_ollama gave it
CallProjected ==
    /\ Len(reg_log) < MaxOps
    /\ LET presented == _tools_for_ollama(registry_list(tools, tool_order).map,
                                          registry_list(tools, tool_order).order)
       IN \E i \in 1..Len(presented), outcome \in ToolOutcomes :
           LET name == presented[i].function.name
               r == RegistryCall(tools, JStr(name), JDict("command=ls"), outcome)
           IN  reg_log' = Append(reg_log,
                  LogEntry("call_projected", name, r.raised, r.out,
                           IF r.ran THEN tools[name].fn ELSE "none", tools, tool_order))
    /\ UNCHANGED <<agentvars, storevars, servervars, truncvars, tools, tool_order,
                   listed, utterance, needs>>

RegistryNext ==
    \/ Register
    \/ List
    \/ MutateListed
    \/ Call
    \/ Project
    \/ CallProjected

RegistrySpec == RegistryInit /\ [][RegistryNext]_vars

(***************************************************************************)
(* The memory store on its own (MemoryStore on SQLite): callers append     *)
(* messages to sessions and read a session back.  The clock is the wall    *)
(* clock, datetime.now(): nothing orders two readings of it.               *)
(***************************************************************************)
MaxRows == 3
MaxSec == 1

SessionIds == {"s1", "s2"}
Roles == {"user", "assistant"}
MsgTexts == {"hola", "vale"}

\* the readings of datetime.now(): a second and its microseconds
Instants == [sec : 0..MaxSec, micro : {0, 5}]

\* datetime.isoformat(): the fraction is left out when microsecond is 0
isoformat(t) == IF t.micro = 0 THEN <<t.sec>> ELSE <<t.sec, t.micro>>

\* a < b for the TEXT values of created_at: the first difference decides, and
\* a proper prefix comes first
TextLess(a, b) ==
    \E k \in 1..(Len(a) + 1) :
        /\ \A j \in 1..(k - 1) : j <= Len(b) /\ a[j] = b[j]
        /\ k <= Len(b)
        /\ k <= Len(a) => a[k] < b[k]

\* MemoryStore.add_message(session_id, role, content): the row it inserts
add_message(rows, sid, role, content, now) ==
    Append(rows, [session_id |-> sid, role |-> role, content |-> content,
                  created_at |-> isoformat(now)])

\* the columns role, content, created_at of a row
Selected(row) ==
    [role |-> row.role, content |-> row.content, created_at |-> row.created_at]

\* the rowids of the rows of a session
RowsOf(rows, sid) == {i \in 1..Len(rows) : rows[i].session_id = sid}

\* MemoryStore.get_session_messages(session_id): the rows of the session
\* ORDER BY created_at ASC; rows with equal created_at are taken in the order of
\* their rowids, the order in which the scan of the table delivers them
get_session_messages(rows, sid) ==
    LET ids == RowsOf(rows, sid)
        n == Cardinality(ids)
        Before(i, j) ==
            \/ TextLess(rows[i].created_at, rows[j].created_at)
            \/ rows[i].created_at = rows[j].created_at /\ i < j
        f == CHOOSE g \in [1..n -> ids] : \A i, j \in 1..n : i < j => Before(g[i], g[j])
    IN  [k \in 1..n |-> Selected(rows[f[k]])]

StoreInit ==
    /\ AtRest
    /\ tools = DefaultRegistry /\ tool_order = DefaultOrder
    /\ listed = NotListed /\ reg_log = <<>>
    /\ utterance = <<>> /\ needs = "unasked"
    /\ StoreAtRest /\ ServerAtRest /\ TruncAtRest

\* store.add_message(...) by any caller, for any session, at any clock reading
AddMessage ==
    /\ Len(msg_rows) < MaxRows
    /\ \E sid \in SessionIds, role \in Roles, content \in MsgTexts, now \in Instants :
        msg_rows' = add_message(msg_rows, sid, role, content, now)
    /\ UNCHANGED <<agentvars, tools, tool_order, listed, reg_log, utterance, needs,
                   fetched, servervars, truncvars>>

\* store.get_session_messages(sid)
GetSessionMessages ==
    /\ msg_rows # <<>>
    /\ \E sid \in SessionIds :
        fetched' = [sid |-> sid, rows |-> get_session_messages(msg_rows, sid),
                    upto |-> Len(msg_rows)]
    /\ UNCHANGED <<agentvars, tools, tool_order, listed, reg_log, utterance, needs,
                   msg_rows, servervars, truncvars>>

StoreNext ==
    \/ AddMessage
    \/ GetSessionMessages

StoreSpec == StoreInit /\ [][StoreNext]_vars

(***************************************************************************)
(* The web server (web/server.py): one event loop, one coroutine           *)
(* websocket_endpoint per connection, one module-level agent.  A coroutine *)
(* gives the loop away at an `await` only; `pc` of a connection is the     *)
(* statement it executes next.                                             *)
(***************************************************************************)
MaxMsgs == 2

Conns == {"c1", "c2"}

\* the frames a client sends: a message, a blank message, no "message"
\* member, text that is not JSON
Payloads ==
    { [json |-> TRUE, has |-> TRUE, message |-> <<WS, "hola">>],
      [json |-> TRUE, has |-> TRUE, message |-> <<WS>>],
      [json |-> TRUE, has |-> FALSE, message |-> <<>>],
      [json |-> FALSE, has |-> FALSE, message |-> <<>>] }

\* a connection whose handler has been scheduled and has not run yet
NewConn == [pc |-> "accept", waiting |-> TRUE, msg |-> <<>>, got |-> 0]

ServerInit ==
    /\ AtRest
    /\ tools = DefaultRegistry /\ tool_order = DefaultOrder
    /\ listed = NotListed /\ reg_log = <<>>
    /\ utterance = <<>> /\ needs = "unasked"
    /\ StoreAtRest /\ TruncAtRest
    /\ conns = [c \in Conns |-> NewConn]
    /\ running = "none"
    /\ agent_count = 0
    /\ appends = <<>>

\* what no statement of the handler touches
ServerFrame ==
    UNCHANGED <<agentvars, tools, tool_order, listed, reg_log, utterance, needs,
                storevars, truncvars>>

\* the statement at `at` is `await ...`: the coroutine is suspended and the loop
\* is free; `next` is the statement after it
Await(c, at, next) ==
    /\ running = c /\ conns[c].pc = at
    /\ conns' = [conns EXCEPT ![c].pc = next, ![c].waiting = TRUE]
    /\ running' = "none"
    /\ UNCHANGED <<agent_count, appends>>
    /\ ServerFrame

\* the event loop resumes a suspended coroutine
Resume(c) ==
    /\ running = "none" /\ conns[c].waiting
    /\ conns' = [conns EXCEPT ![c].waiting = FALSE]
    /\ running' = c
    /\ UNCHANGED <<agent_count, appends>>
    /\ ServerFrame

\* await websocket.accept()
Accept(c) == Await(c, "accept", "get_agent")

\* agent = get_agent(): builds the agent if _agent is None
GetAgent(c) ==
    /\ running = c /\ conns[c].pc = "get_agent"
    /\ agent_count' = IF agent_count = 0 THEN 1 ELSE agent_count
    /\ conns' = [conns EXCEPT ![c].pc = "receive"]
    /\ UNCHANGED <<running, appends>>
    /\ ServerFrame

\* data = await websocket.receive_text()
Receive(c) ==
    /\ conns[c].got < MaxMsgs
    /\ Await(c, "receive", "parse")

\* receive_text() raises WebSocketDisconnect: the handler ends
Disconnect(c) ==
    /\ running = "none" /\ conns[c].waiting /\ conns[c].pc = "parse"
    /\ conns' = [conns EXCEPT ![c].pc = "closed", ![c].waiting = FALSE]
    /\ UNCHANGED <<running, agent_count, appends>>
    /\ ServerFrame

\* message_data = json.loads(data); user_message = message_data.get("message",
\* "").strip(); if not user_message: ...
Parse(c) ==
    /\ running = c /\ conns[c].pc = "parse"
    /\ \E data \in Payloads :
        LET user_message == Strip(IF data.has THEN data.message ELSE <<>>) IN
        IF ~data.json
        THEN \* json.loads raises, `except Exception` ends the handler
             /\ conns' = [conns EXCEPT ![c].pc = "closed", ![c].got = @ + 1]
             /\ running' = "none"
        ELSE /\ conns' = [conns EXCEPT ![c].msg = user_message, ![c].got = @ + 1,
                                       ![c].pc = IF user_message = <<>>
                                                 THEN "send_error" ELSE "send_echo"]
             /\ UNCHANGED running
    /\ UNCHANGED <<agent_count, appends>>
    /\ ServerFrame

\* await websocket.send_json({"type": "error", "content": "Mensaje vacío"}); continue
SendError(c) == Await(c, "send_error", "receive")

\* await websocket.send_json({"type": "user_message", ...})
SendEcho(c) == Await(c, "send_echo", "run")

\* one append to the history of the shared agent and one to its session
Appended(c, role) ==
    appends \o << [conn |-> c, role |-> role, to |-> "state", content |-> conns[c].msg],
                  [conn |-> c, role |-> role, to |-> "session", content |-> conns[c].msg] >>

\* agent.run awaited: the coroutine is suspended while the turn is under way
RunBeginAwaited(c) ==
    /\ running = c /\ conns[c].pc = "run"
    /\ appends' = Appended(c, "user")
    /\ conns' = [conns EXCEPT ![c].pc = "in_run", ![c].waiting = TRUE]
    /\ running' = "none"
    /\ UNCHANGED agent_count
    /\ ServerFrame

\* response = agent.run(user_message), a plain call: up to add_user and
\* _save_message("user", ...)
RunBegin(c) ==
    /\ running = c /\ conns[c].pc = "run"
    /\ appends' = Appended(c, "user")
    /\ conns' = [conns EXCEPT ![c].pc = "in_run"]
    /\ UNCHANGED <<running, agent_count>>
    /\ ServerFrame

\* the rest of agent.run: it returns after add_assistant and
\* _save_message("assistant", ...), or raises
RunEnd(c) ==
    /\ running = c /\ conns[c].pc = "in_run"
    /\ \E returns \in BOOLEAN :
        appends' = IF returns THEN Appended(c, "assistant") ELSE appends
    /\ conns' = [conns EXCEPT ![c].pc = "send_reply"]
    /\ UNCHANGED <<running, agent_count>>
    /\ ServerFrame

\* await websocket.send_json(...) of the assistant message or of the error
SendReply(c) == Await(c, "send_reply", "receive")

ServerNext ==
    \E c \in Conns :
        \/ Resume(c)
        \/ Accept(c)
        \/ GetAgent(c)
        \/ Receive(c)
        \/ Disconnect(c)
        \/ Parse(c)
        \/ SendError(c)
        \/ SendEcho(c)
        \/ RunBegin(c)
        \/ RunEnd(c)
        \/ SendReply(c)

ServerSpec == ServerInit /\ [][ServerNext]_vars

(***************************************************************************)
(* agent/state.py: truncate_history, a helper over a list of messages.     *)
(***************************************************************************)
MaxHist == 3
MaxKeep == 3

HistRoles == {"system", "user", "assistant"}

\* the messages of the lists it is applied to
HistMessages == [role : HistRoles, content : {<<"hola">>, <<"vale">>}]

\* the lists of at most n messages
RECURSIVE HistoriesUpTo(_)
HistoriesUpTo(n) ==
    IF n = 0 THEN {<<>>}
    ELSE LET shorter == HistoriesUpTo(n - 1) IN
         shorter \cup { Append(h, m) : h \in { s \in shorter : Len(s) = n - 1 },
                                       m \in HistMessages }

\* Python's s[start:] : a negative start counts from the end, zero is the
\* beginning, and a start beyond either end is clipped
SliceFrom(s, start) ==
    LET from == IF start < 0
                THEN (IF Len(s) + start < 0 THEN 0 ELSE Len(s) + start)
                ELSE (IF start > Len(s) THEN Len(s) ELSE start)
    IN SubSeq(s, from + 1, Len(s))

truncate_history(h, max_messages) ==
    IF Len(h) <= max_messages
    THEN h
    ELSE IF h # <<>> /\ h[1].role = "system"
         THEN <<h[1]>> \o SliceFrom(h, -(max_messages - 1))
         ELSE SliceFrom(h, -max_messages)

\* a caller holds a list and a limit
TruncInit ==
    /\ AtRest
    /\ tools = DefaultRegistry /\ tool_order = DefaultOrder
    /\ listed = NotListed /\ reg_log = <<>>
    /\ utterance = <<>> /\ needs = "unasked"
    /\ StoreAtRest /\ ServerAtRest
    /\ \E h \in HistoriesUpTo(MaxHist), m \in 0..MaxKeep :
          trunc_call = [NoTrunc EXCEPT !.history = h, !.max_messages = m]

\* out = truncate_history(history, max_messages)
TruncateHistory ==
    /\ ~trunc_call.called
    /\ trunc_call' = [trunc_call EXCEPT
                        !.called = TRUE,
                        !.out = truncate_history(trunc_call.history,
                                                 trunc_call.max_messages)]
    /\ UNCHANGED <<agentvars, tools, tool_order, listed, reg_log, utterance, needs,
                   storevars, servervars>>

TruncNext == TruncateHistory

TruncSpec == TruncInit /\ [][TruncNext]_vars

(***************************************************************************)
(* Vocabulary of the properties.                                           *)
(***************************************************************************)
Last(q) == q[Len(q)]

\* a run() has given control back to its caller
TurnOver == pc = "idle" /\ result.kind # "none"

\* the process is inside the tool loop of _run_with_ollama
InToolLoop == pc \in {"loop", "tools"}

\* the process is inside a turn of ToolAgent
InTurn == pc \in {"groq", "plain", "loop", "tools"}

\* the tool-role messages of the local message list, in order
ToolMsgs == SelectSeq(messages, LAMBDA m : m.role = "tool")

\* the memory port stores what it is given
MemoryWorks == MemoryEnabled /\ store_mode = "ok"

\* the turn appended the user message and then exactly one assistant message `text`
OneAssistantMessage(text) ==
    /\ Len(history) = turn_base + 2
    /\ history[turn_base + 1] = [role |-> "user", content |-> user_text]
    /\ history[turn_base + 2] = [role |-> "assistant", content |-> text]

\* the assistant message `text` of the turn reached the memory port
Persisted(text) ==
    MemoryWorks =>
        /\ Len(mem_messages) = mem_base + 2
        /\ Last(mem_messages) =
             [session_id |-> session_id, role |-> "assistant", content |-> text]

Registered(name) == name.t = "str" /\ name.v \in DOMAIN tools

AllRepliesRequestTools ==
    /\ backend_calls # <<>>
    /\ \A i \in 1..Len(backend_calls) : backend_calls[i].reply = "tool_calls"

(***************************************************************************)
(* C1. Loop-limit circuit breaker: with max_tool_loops = N >= 1, a turn on *)
(* the tool path whose every backend response carries tool_calls issues    *)
(* exactly N backend calls, never an (N+1)th, and returns the fixed        *)
(* loop-limit message, appended as the turn's single assistant message and *)
(* handed to the memory port.                                              *)
(***************************************************************************)
C1_LoopLimitCircuitBreaker ==
    (kind = "ToolAgent" /\ config.max_tool_loops >= 1
        /\ backend_calls # <<>> /\ backend_calls[1].tools) =>
        /\ Len(backend_calls) <= config.max_tool_loops
        /\ (TurnOver /\ AllRepliesRequestTools) =>
              /\ Len(backend_calls) = config.max_tool_loops
              /\ result = [kind |-> "return", text |-> LOOP_LIMIT_MSG, via |-> "limit"]
              /\ OneAssistantMessage(LOOP_LIMIT_MSG)
              /\ Persisted(LOOP_LIMIT_MSG)

(***************************************************************************)
(* C2. Every turn of ToolAgent.run terminates, within max_tool_loops + 1   *)
(* backend calls, whatever the backend and the tools answer, on every      *)
(* routing path: the count never exceeds max_tool_loops + 1 and a turn in  *)
(* progress always has a next step.                                        *)
(***************************************************************************)
C2_TerminatesWithinBudget ==
    kind = "ToolAgent" =>
        /\ Len(backend_calls) <= config.max_tool_loops + 1
        /\ InTurn => ENABLED TurnStep

(***************************************************************************)
(* C3. No exception raised inside a registered tool's function leaves      *)
(* ToolRegistry.call: when the function raises, call returns               *)
(* {ok: false, error: "<Type>: <message>"}, when it returns, call returns  *)
(* {ok: true, result: <what it returned>}; an exception that ends a turn   *)
(* never comes from a call that reached a tool function.                   *)
(***************************************************************************)
C3_ToolFailuresAreContained ==
    /\ \A i \in 1..Len(invoked) :
          invoked[i].ran =>
              /\ Registered(invoked[i].name)
              /\ ~invoked[i].raised
              /\ invoked[i].fn_did.kind = "raise" =>
                    invoked[i].out =
                        [ok |-> FALSE, result |-> <<>>,
                         error |-> <<invoked[i].fn_did.type, ": ">> \o invoked[i].fn_did.text]
              /\ invoked[i].fn_did.kind = "return" =>
                    invoked[i].out =
                        [ok |-> TRUE, result |-> invoked[i].fn_did.text, error |-> <<>>]
    /\ \A i \in 1..Len(invoked) : Registered(invoked[i].name) => invoked[i].ran
    /\ result.kind = "raise" => (invoked # <<>> /\ ~Last(invoked).ran)

\* a registered tool has raised and the tool loop goes on
C3_Witness ==
    /\ InToolLoop
    /\ invoked # <<>>
    /\ Last(invoked).ran
    /\ Last(invoked).fn_did.kind = "raise"
    /\ ~Last(invoked).out.ok

(***************************************************************************)
(* C4. For every tool name that is not in the registry, whatever value the *)
(* backend supplied as the name, ToolRegistry.call returns                 *)
(* {ok: false, error}, never raises, invokes no tool function and leaves   *)
(* the registry unchanged.                                                 *)
(***************************************************************************)
C4_UnknownToolIsAStructuredError ==
    /\ tools = DefaultRegistry
    /\ \A i \in 1..Len(invoked) :
          ~Registered(invoked[i].name) =>
              /\ ~invoked[i].raised
              /\ ~invoked[i].ran
              /\ ~invoked[i].out.ok
              /\ invoked[i].out.error # <<>>

(***************************************************************************)
(* C5 as stated. A request for the unregistered tool "teleport" gets a     *)
(* tool-role message whose content is the serialized                       *)
(* {ok: false, error: "Tool desconocida: teleport"}.                       *)
(***************************************************************************)
C5_UnknownToolMessageAsStated ==
    InToolLoop =>
        \A k \in 1..Len(invoked) :
            invoked[k].name = JStr("teleport") =>
                /\ k <= Len(ToolMsgs)
                /\ Flat(ToolMsgs[k].content)
                     = "{\"ok\": false, \"error\": \"Tool desconocida: teleport\"}"

(***************************************************************************)
(* C5 amended. A request for the unregistered tool "teleport" gets, in the *)
(* order of the invocations, a tool-role message whose content is the      *)
(* serialized {ok: false, error: "Tool no encontrada: 'teleport'"}; the    *)
(* request raises nothing and does not end the turn: the turn goes on with *)
(* the next invocation or the next loop iteration, and ends only by a      *)
(* later backend reply, by the loop limit or by a later invocation.        *)
(***************************************************************************)
C5_UnknownToolFeedsBack ==
    /\ InToolLoop =>
          /\ Len(ToolMsgs) = Len(invoked)
          /\ \A k \in 1..Len(invoked) :
                invoked[k].name = JStr("teleport") =>
                    /\ ToolMsgs[k].role = "tool"
                    /\ Flat(ToolMsgs[k].content)
                         = "{\"ok\": false, \"error\": \"Tool no encontrada: 'teleport'\"}"
    /\ \A k \in 1..Len(invoked) :
          invoked[k].name = JStr("teleport") =>
              /\ ~invoked[k].raised
              /\ pc = "idle" =>
                    \/ k < Len(invoked)
                    \/ Len(backend_calls) > invoked[k].resp
                    \/ result.via = "limit"

\* "teleport" was answered and the backend has been called again
C5_Witness ==
    /\ InToolLoop
    /\ \E k \in 1..Len(invoked) :
          /\ invoked[k].name = JStr("teleport")
          /\ Len(backend_calls) > invoked[k].resp
          /\ Flat(ToolMsgs[k].content)
               = "{\"ok\": false, \"error\": \"Tool no encontrada: 'teleport'\"}"

(***************************************************************************)
(* C6. The tool-role message appended for an executed invocation carries a *)
(* correlation id equal to the id of that invocation in the assistant      *)
(* message that requested it.                                              *)
(***************************************************************************)
C6_ToolMessageCarriesCorrelationId ==
    InToolLoop =>
        \A k \in 1..Len(ToolMsgs) :
            /\ k <= Len(invoked)
            /\ \E f \in DOMAIN ToolMsgs[k] \ {"role", "content"} :
                  ToolMsgs[k][f] = invoked[k].id

(***************************************************************************)
(* C7 as stated. When the response to the first backend call of a turn     *)
(* carries no tool_calls, that is the only backend call of the turn, no    *)
(* tool is invoked, and the response text is the value returned, appended  *)
(* as the assistant message and handed to the memory port.                 *)
(***************************************************************************)
FirstReplyIsFinal == backend_calls # <<>> /\ backend_calls[1].reply = "final"

C7_Answer ==
    LET c == Strip(backend_calls[1].content)
    IN  IF c = <<>> THEN <<"No generé respuesta.">> ELSE c

C8_Processed(j) == j < Len(backend_calls) \/ pc \in {"loop", "idle"}

C8_SequentialInOrderExactlyOnce ==
    kind = "ToolAgent" =>
        \* invocations follow the order of the responses and of their lists
        /\ \A k \in 1..Len(invoked) :
              /\ invoked[k].id = backend_calls[invoked[k].resp].requested[invoked[k].pos].id
              /\ k > 1 =>
                    \/ /\ invoked[k].resp = invoked[k - 1].resp
                       /\ invoked[k].pos = invoked[k - 1].pos + 1
                    \/ /\ invoked[k].resp > invoked[k - 1].resp
                       /\ invoked[k].pos = 1
        \* every request of a processed response was invoked exactly once
        /\ \A j \in 1..Len(backend_calls) :
              C8_Processed(j) =>
                  \A p \in 1..Len(backend_calls[j].requested) :
                      Cardinality({k \in 1..Len(invoked) :
                          invoked[k].resp = j /\ invoked[k].pos = p /\ ~invoked[k].raised}) = 1
        \* message and event of every invocation made so far
        /\ InToolLoop =>
              /\ Len(ToolMsgs) = Len(invoked)
              /\ MemoryWorks => Len(mem_tool_events) = Len(invoked)

(***************************************************************************)
(* C9. On a backend transport failure the value returned holds the raw     *)
(* error text only when debug is set; with debug off it holds no text of   *)
(* the underlying error.  On every backend path the message is appended as *)
(* the assistant message and ends the turn without a retry.                *)
(***************************************************************************)
C9_RawErrorOnlyInDebug ==
    (TurnOver /\ result.via = "error") =>
        /\ transport_err # <<>>
        /\ Last(backend_calls).reply = "error"
        /\ Last(history) = [role |-> "assistant", content |-> result.text]
        /\ config.debug => Contains(result.text, Last(transport_err))
        /\ ~config.debug => ~SharesText(result.text, Last(transport_err))

(***************************************************************************)
(* C10. When the call of the conversational backend (Groq) fails, the same *)
(* turn makes exactly one more backend call, to Ollama without tool        *)
(* schemas; the failed call appends nothing to the history or to the       *)
(* memory port, no tool is invoked, and what the fallback call yields is   *)
(* the value of the turn.                                                  *)
(***************************************************************************)
GroqFailed ==
    /\ backend_calls # <<>>
    /\ backend_calls[1].backend = "groq"
    /\ backend_calls[1].reply = "error"

C10_FallbackAnswer ==
    LET x == backend_calls[2]
        c == Strip(x.content)
    IN  IF x.reply = "error" THEN <<"Error Ollama: ">> \o x.err.text
        ELSE IF c = <<>> THEN <<"No generé respuesta.">> ELSE c

C10_FallbackAfterGroqFailure ==
    GroqFailed =>
        /\ Len(backend_calls) <= 2
        /\ invoked = <<>>
        /\ Len(backend_calls) = 1 =>
              /\ pc = "plain"
              /\ result = NoResult
              /\ Len(history) = turn_base + 1
              /\ Last(history) = [role |-> "user", content |-> user_text]
              /\ Len(mem_messages) = mem_base + (IF MemoryWorks THEN 1 ELSE 0)
              /\ messages = build_messages(history, user_text)
        /\ Len(backend_calls) = 2 =>
              /\ backend_calls[2].backend = "ollama"
              /\ ~backend_calls[2].tools
              /\ TurnOver
              /\ result.kind = "return"
              /\ result.text = C10_FallbackAnswer
              /\ OneAssistantMessage(C10_FallbackAnswer)

\* Groq failed, Ollama answered, the turn is over
C10_Witness ==
    /\ GroqFailed
    /\ Len(backend_calls) = 2
    /\ backend_calls[2].reply = "final"
    /\ TurnOver
    /\ result.text = <<"hola">>

(***************************************************************************)
(* C11. An argument payload that does not parse as a mapping (text that is *)
(* not JSON, JSON text that decodes to something other than an object, a   *)
(* payload that is neither text nor a mapping) reaches ToolRegistry.call   *)
(* as {"_raw": <original payload>}; a payload that is a mapping, or text   *)
(* that decodes to one, reaches it as that mapping; no requested           *)
(* invocation is skipped.                                                  *)
(***************************************************************************)
\* the payload the backend sent for invocation k of the turn
C11_Payload(k) ==
    backend_calls[invoked[k].resp].requested[invoked[k].pos].function.arguments

C11_Expected(raw) ==
    IF raw.t = "dict" THEN raw
    ELSE IF raw.t = "str" /\ JsonLoads(raw.v).ok /\ JsonLoads(raw.v).value.t = "dict"
    THEN JsonLoads(raw.v).value
    ELSE JDict("_raw=" \o PyStr(raw))

C11_UnparsedPayloadsAreWrapped ==
    kind = "ToolAgent" =>
        /\ \A k \in 1..Len(invoked) : invoked[k].args = C11_Expected(C11_Payload(k))
        /\ pc = "tools" =>
              Cardinality({k \in 1..Len(invoked) : invoked[k].resp = Len(backend_calls)})
                  = tc_index - 1

(***************************************************************************)
(* C12. A failure of a memory-port operation (create_session, add_message, *)
(* add_tool_event) never propagates: the agent is constructed, no turn     *)
(* ends by an exception of the store, and a turn returns and appends what  *)
(* the backend replies and the loop limit determine, whatever the store    *)
(* does.                                                                   *)
(***************************************************************************)
\* what a finished turn of ToolAgent returns, read off its backend calls
C12_Answer ==
    IF backend_calls = <<>> \/ Last(backend_calls).reply = "tool_calls"
    THEN <<"Límite de tool loops alcanzado.">>
    ELSE IF Last(backend_calls).reply = "error"
    THEN <<"Error Ollama: ">> \o Last(backend_calls).err.text
    ELSE IF Strip(Last(backend_calls).content) = <<>> THEN <<"No generé respuesta.">>
    ELSE Strip(Last(backend_calls).content)

C12_MemoryFailuresNeverPropagate ==
    kind = "ToolAgent" =>
        /\ pc # "ctor_failed"
        /\ result.kind = "raise" => (invoked # <<>> /\ Last(invoked).raised)
        /\ (TurnOver /\ result.kind = "return" /\ result.via # "empty") =>
              /\ result.text = C12_Answer
              /\ OneAssistantMessage(C12_Answer)

(***************************************************************************)
(* C13. For an empty, whitespace-only or missing user input, run returns   *)
(* the fixed "Dime qué quieres que haga." with no backend call and no tool *)
(* call, and leaves the history and the memory port as they were.          *)
(***************************************************************************)
C13_NoText(arg) == ~arg.given \/ Strip(arg.text) = <<>>

C13_EmptyInputIsRejected ==
    /\ [](turns > 0 /\ C13_NoText(run_arg) =>
            /\ pc = "idle"
            /\ result = [kind |-> "return", text |-> <<"Dime qué quieres que haga.">>,
                         via |-> "empty"]
            /\ backend_calls = <<>>
            /\ invoked = <<>>
            /\ Len(history) = turn_base)
    /\ [][(turns' = turns + 1 /\ C13_NoText(run_arg')) =>
            UNCHANGED <<history, mem_sessions, mem_messages, mem_tool_events, tools>>]_vars

\* run(None) has returned in an agent whose memory port works
C13_Witness ==
    /\ turns > 0
    /\ ~run_arg.given
    /\ result.text = <<"Dime qué quieres que haga.">>
    /\ kind = "ToolAgent"
    /\ MemoryWorks

(***************************************************************************)
(* C14. If no credential is configured for the backend selected for a      *)
(* turn (the OpenAI key of AgentRunner, the Groq key of a ToolAgent set to *)
(* use Groq on a conversational turn), the turn returns a fixed            *)
(* configuration-error message and contacts no backend.                    *)
(***************************************************************************)
C14_NoCredential ==
    \/ kind = "AgentRunner" /\ config.api_key = ""
    \/ kind = "ToolAgent" /\ config.use_groq /\ config.groq_api_key = ""
          /\ ~_needs_tools(user_text)

C14_MissingCredentialContactsNoBackend ==
    (turns > 0 /\ ~C13_NoText(run_arg) /\ C14_NoCredential) =>
        /\ backend_calls = <<>>
        /\ TurnOver => result.via = "nokey"

(***************************************************************************)
(* C15 as stated. With max_tool_loops = N >= 1, a turn makes at most N     *)
(* backend calls in total on every routing path.                           *)
(***************************************************************************)
C15_AtMostMaxToolLoopsCallsAsStated ==
    (kind = "ToolAgent" /\ config.max_tool_loops >= 1) =>
        Len(backend_calls) <= config.max_tool_loops

(***************************************************************************)
(* C15 amended. With max_tool_loops = N >= 1, a turn on the tool path      *)
(* makes at most N backend calls; a conversational turn makes one call,    *)
(* and a second one only as the fallback after a failed Groq call.         *)
(***************************************************************************)
C15_CallsPerTurn ==
    (kind = "ToolAgent" /\ config.max_tool_loops >= 1 /\ backend_calls # <<>>) =>
        IF backend_calls[1].tools
        THEN /\ Len(backend_calls) <= config.max_tool_loops
             /\ \A i \in 1..Len(backend_calls) :
                   backend_calls[i].backend = "ollama" /\ backend_calls[i].tools
        ELSE /\ Len(backend_calls) <= 2
             /\ Len(backend_calls) = 2 =>
                   /\ backend_calls[1].backend = "groq"
                   /\ backend_calls[1].reply = "error"
                   /\ backend_calls[2].backend = "ollama"

\* the tool path has used its whole budget
C15_Witness ==
    /\ kind = "ToolAgent"
    /\ config.max_tool_loops = MaxLoops
    /\ Len(backend_calls) = MaxLoops
    /\ backend_calls[1].tools
    /\ result.via = "limit"

(***************************************************************************)
(* C16. max_tool_loops is a positive integer in every agent that runs a    *)
(* turn, so the loop-limit message is never returned before at least one   *)
(* backend call has been made.                                             *)
(***************************************************************************)
C16_MaxToolLoopsIsPositive ==
    (kind = "ToolAgent" /\ turns > 0) =>
        /\ config.max_tool_loops >= 1
        /\ result.via = "limit" => backend_calls # <<>>

(***************************************************************************)
(* C17. The router classifies "list files in this folder" as tool-needing  *)
(* and "tell me a joke" as conversation; its answer is "tools" exactly     *)
(* when some pattern matches the utterance, and it calls no backend.       *)
(***************************************************************************)
C17_ScenarioC ==
    needs # "unasked" =>
        /\ utterance = <<"list", "files", "in", "this", "folder">> => needs = "tools"
        /\ utterance = <<"tell", "me", "a", "joke">> => needs = "conversation"
        /\ needs = "tools" <=>
              \E k \in 1..Len(tool_patterns) :
                  Search(tool_patterns[k], Words(LowerText(utterance)))
        /\ backend_calls = <<>>

(***************************************************************************)
(* C18. list() returns a snapshot: writes to the returned mapping (adding, *)
(* replacing, removing entries) change neither the registry nor what a     *)
(* later call or a later list() gives; both are determined by the          *)
(* successful register calls alone.                                        *)
(***************************************************************************)
\* the registry before operation i of the caller
RegBefore(i) ==
    IF i = 1 THEN [reg |-> EmptyMap, order |-> <<>>]
    ELSE [reg |-> reg_log[i - 1].reg, order |-> reg_log[i - 1].order]

\* the register calls before operation i that added a tool
Added(i) == {j \in 1..(i - 1) : reg_log[j].op = "register" /\ ~reg_log[j].raised}

\* the key under which register call j stored its spec
KeyOf(j) == Flat(Strip(reg_log[j].arg.name))

C18_ListIsASnapshot ==
    \A i \in 1..Len(reg_log) :
        /\ reg_log[i].op = "write" =>
              /\ reg_log[i].reg = RegBefore(i).reg
              /\ reg_log[i].order = RegBefore(i).order
        /\ reg_log[i].op = "call" =>
              IF \E j \in Added(i) : KeyOf(j) = reg_log[i].arg
              THEN \A j \in Added(i) :
                      KeyOf(j) = reg_log[i].arg => reg_log[i].fn = reg_log[j].arg.fn
              ELSE /\ reg_log[i].fn = "none"
                   /\ reg_log[i].out =
                        [ok |-> FALSE, result |-> <<>>,
                         error |-> <<"Tool no encontrada: '", reg_log[i].arg, "'">>]
        /\ reg_log[i].op = "list" =>
              /\ DOMAIN reg_log[i].out.map = {KeyOf(j) : j \in Added(i)}
              /\ \A j \in Added(i) : reg_log[i].out.map[KeyOf(j)] = reg_log[j].arg
              /\ Len(reg_log[i].out.order) = Cardinality(Added(i))

\* the caller replaced "shell" in the mapping it got, and a later call ran run_shell
C18_Witness ==
    \E i, j \in 1..Len(reg_log) :
        /\ i < j
        /\ reg_log[i].op = "write"
        /\ reg_log[i].arg = [kind |-> "set", key |-> "shell"]
        /\ reg_log[j].op = "call"
        /\ reg_log[j].fn = "run_shell"
        /\ listed.touched
        /\ listed.map["shell"] = GhostSpec

(***************************************************************************)
(* C19 as stated. register(spec) adds the tool when no registered tool has *)
(* its name, and fails with a duplicate-tool error, leaving the registry   *)
(* unchanged, when one has; tool names stay unique.                        *)
(***************************************************************************)
DuplicateError(name) == <<"ValueError: ", "La tool '", name, "' ya está registrada.">>

NamesAreUnique ==
    /\ DOMAIN tools = {tool_order[i] : i \in 1..Len(tool_order)}
    /\ \A i, j \in 1..Len(tool_order) : tool_order[i] = tool_order[j] => i = j
    /\ \A k \in DOMAIN tools : Flat(Strip(tools[k].name)) = k

C19_RegisterAsStated ==
    /\ NamesAreUnique
    /\ \A i \in 1..Len(reg_log) :
          reg_log[i].op = "register" =>
              LET spec == reg_log[i].arg
                  before == RegBefore(i)
              IN  IF \E k \in DOMAIN before.reg : before.reg[k].name = spec.name
                  THEN /\ reg_log[i].raised
                       /\ reg_log[i].reg = before.reg
                       /\ reg_log[i].order = before.order
                  ELSE /\ ~reg_log[i].raised
                       /\ \E k \in DOMAIN reg_log[i].reg : reg_log[i].reg[k] = spec

(***************************************************************************)
(* C19 amended. register(spec) takes spec.name stripped of surrounding     *)
(* whitespace as the key: it fails with a ValueError when the key is       *)
(* empty, fails with the ValueError "La tool '<key>' ya está registrada."  *)
(* when the key is already registered, in both cases leaving the registry  *)
(* unchanged (the earlier tool keeps its spec), and otherwise adds the     *)
(* spec under the key as the last entry; keys stay unique.                 *)
(***************************************************************************)
C19_Register ==
    /\ NamesAreUnique
    /\ \A i \in 1..Len(reg_log) :
          reg_log[i].op = "register" =>
              LET spec == reg_log[i].arg
                  key == Flat(Strip(spec.name))
                  before == RegBefore(i)
              IN  IF key = ""
                  THEN /\ reg_log[i].raised
                       /\ reg_log[i].out =
                            <<"ValueError: ", "ToolSpec.name no puede estar vacío.">>
                       /\ reg_log[i].reg = before.reg
                       /\ reg_log[i].order = before.order
                  ELSE IF key \in DOMAIN before.reg
                  THEN /\ reg_log[i].raised
                       /\ reg_log[i].out = DuplicateError(key)
                       /\ reg_log[i].reg = before.reg
                       /\ reg_log[i].order = before.order
                  ELSE /\ ~reg_log[i].raised
                       /\ DOMAIN reg_log[i].reg = DOMAIN before.reg \cup {key}
                       /\ reg_log[i].reg[key] = spec
                       /\ \A k \in DOMAIN before.reg : reg_log[i].reg[k] = before.reg[k]
                       /\ reg_log[i].order = Append(before.order, key)

\* a second spec named "shell" was refused and the first one is still there
C19_Witness ==
    /\ reg_log # <<>>
    /\ Last(reg_log).op = "register"
    /\ Last(reg_log).raised
    /\ Last(reg_log).arg.fn = "other"
    /\ Last(reg_log).out = DuplicateError("shell")
    /\ tools["shell"] = ShellSpec

OwnsItsSession ==
    kind = "ToolAgent" /\ store_mode = "ok" /\ config.enable_memory
        /\ session_id \in {NoSession, "s1"}

\* a turn with non-empty input has been processed (its user message is appended)
SomeTurnProcessed == history # <<>>

\* C21 as the specification states it
C21_SessionCreatedLazilyAsStated ==
    OwnsItsSession =>
        /\ ~SomeTurnProcessed => mem_sessions = {}
        /\ SomeTurnProcessed => Cardinality(mem_sessions) = 1

\* C21 as the code has it: ToolAgent.__init__ makes the one create_session call,
\* before any turn; every constructed agent holds exactly the session it created
\* and no turn creates another.
C21_SessionCreatedByConstructor ==
    /\ [](OwnsItsSession =>
             /\ pc = "new" => (mem_sessions = {} /\ session_id = NoSession)
             /\ pc # "new" => (mem_sessions = {session_id} /\ session_id # NoSession))
    /\ [][pc # "new" => (mem_sessions' = mem_sessions /\ session_id' = session_id)]_vars

\* the constructed agent holds its session and no turn has been run yet
C21_Witness ==
    /\ OwnsItsSession
    /\ pc = "idle" /\ turns = 0 /\ history = <<>>
    /\ mem_sessions = {"s1"} /\ session_id = "s1"

(***************************************************************************)
(* C22. For every session, get_session_messages returns exactly the        *)
(* messages appended to that session, in the order in which add_message    *)
(* was called for them, whatever timestamps the clock assigned (equal      *)
(* timestamps, clock stepping backwards) and whatever writes other         *)
(* sessions made in between.                                               *)
(***************************************************************************)
\* the messages appended to the session before the query, in call order
C22_Appended ==
    SelectSeq(SubSeq(msg_rows, 1, fetched.upto),
              LAMBDA r : r.session_id = fetched.sid)

C22_ReadBackInCallOrder ==
    fetched.sid # NoSession =>
        /\ Len(fetched.rows) = Len(C22_Appended)
        /\ \A k \in 1..Len(fetched.rows) : fetched.rows[k] = Selected(C22_Appended[k])

(***************************************************************************)
(* C23. The message sequence sent on the first backend call of a turn is:  *)
(* the system prompt first, then the messages of the earlier turns, then   *)
(* the new user message; the new user message occurs exactly once in it,   *)
(* as the last element.                                                    *)
(***************************************************************************)
\* the new user message of the turn
C23_NewUserMessage == [role |-> "user", content |-> Strip(OrEmpty(run_arg))]

\* the messages of the earlier turns
C23_EarlierTurns == SubSeq(history, 1, turn_base)

C23_FirstCallMessages ==
    backend_calls # <<>> =>
        backend_calls[1].sent =
            <<[role |-> "system", content |-> SYSTEM_PROMPT]>>
                \o C23_EarlierTurns \o <<C23_NewUserMessage>>

(***************************************************************************)
(* C24. A tool error of any kind (bad arguments, missing tool, exception   *)
(* inside the tool) never terminates the turn: its structured              *)
(* {ok: false, error} result is appended as tool-message content and,      *)
(* while iteration budget remains, the backend is called again in the same *)
(* turn with that message in the sequence; the retry consumes the same     *)
(* turn's budget and gets no extra iterations.                             *)
(***************************************************************************)
\* the invocation did not give {ok: true, result}
C24_Failed(i) == invoked[i].raised \/ ~invoked[i].out.ok

\* the tool message of the i-th invocation of the turn
C24_ToolMessage(i) == [role |-> "tool", content |-> JsonDumps(invoked[i].out)]

\* the tool messages among the messages sent with the k-th backend call
C24_SentToolMsgs(k) == SelectSeq(backend_calls[k].sent, LAMBDA m : m.role = "tool")

C24_ToolErrorsAreFedBack ==
    \A i \in 1..Len(invoked) :
        C24_Failed(i) =>
            \* the turn goes on: nothing is raised, the error is a tool message
            /\ ~invoked[i].raised
            /\ result.kind # "raise"
            /\ InToolLoop => (i <= Len(ToolMsgs) /\ ToolMsgs[i] = C24_ToolMessage(i))
            \* with budget left the backend is called again, with that message
            /\ (pc = "loop" /\ loop_count < config.max_tool_loops) => ENABLED OllamaStep
            /\ \A k \in 1..Len(backend_calls) :
                  invoked[i].resp < k =>
                      (i <= Len(C24_SentToolMsgs(k))
                          /\ C24_SentToolMsgs(k)[i] = C24_ToolMessage(i))
            \* and the budget of the turn is what it was
            /\ Len(backend_calls) <= config.max_tool_loops

(***************************************************************************)
(* C25. After every turn with non-empty input for which run returns, the   *)
(* history has grown by exactly two messages, the user message followed by *)
(* exactly one assistant message, whatever number of tool iterations,      *)
(* transport failures or fallbacks occurred; hence after any sequence of   *)
(* turns and resets the history alternates user, assistant and never       *)
(* contains a tool-role message or an assistant message with tool          *)
(* requests.                                                               *)
(***************************************************************************)
\* the turn that is over had non-empty input and run() returned
C25_Returned ==
    TurnOver /\ result.kind = "return" /\ Strip(OrEmpty(run_arg)) # <<>>

\* the history is user, assistant, user, assistant, ...
C25_Alternates ==
    /\ Len(history) % 2 = 0
    /\ \A i \in 1..Len(history) :
          /\ DOMAIN history[i] = {"role", "content"}
          /\ history[i].role = IF i % 2 = 1 THEN "user" ELSE "assistant"

C25_HistoryGrowsByUserAndAssistant ==
    /\ C25_Returned =>
          /\ Len(history) = turn_base + 2
          /\ history[turn_base + 1] =
                [role |-> "user", content |-> Strip(OrEmpty(run_arg))]
          /\ history[turn_base + 2] = [role |-> "assistant", content |-> result.text]
    /\ pc \in {"idle", "ctor_failed"} => C25_Alternates

(***************************************************************************)
(* C26. ToolAgent.run returns a string and lets no exception escape for    *)
(* every shape of a successfully received backend response, including a    *)
(* message whose content is null or missing and tool_calls entries that    *)
(* are not mappings or lack a function or name; therefore every user       *)
(* message appended to the history has its assistant reply appended before *)
(* the next turn begins, also when the caller catches the error and        *)
(* continues.                                                              *)
(***************************************************************************)
\* every user message of the history is followed by an assistant message
C26_EveryUserMessageAnswered ==
    \A i \in 1..Len(history) :
        history[i].role = "user" =>
            (i < Len(history) /\ history[i + 1].role = "assistant")

C26_RunReturnsForEveryShape ==
    kind = "ToolAgent" =>
        /\ result.kind \in {"none", "return"}
        /\ pc = "idle" => C26_EveryUserMessageAnswered

(***************************************************************************)
(* C27. In the web server, where all websocket connections share the one   *)
(* lazily created agent, the agent's history is never mutated by another   *)
(* actor in the middle of a turn: between a turn's user-message append and *)
(* its assistant-message append no turn of another connection appends to   *)
(* the history or to the shared session, for any interleaving of messages  *)
(* from several connections.                                               *)
(***************************************************************************)
\* the connection is inside agent.run: user message appended, reply not yet
MidTurn(c) == conns[c].pc = "in_run"

\* the appends of the step
C27_NewAppends == { i \in 1..Len(appends') : i > Len(appends) }

C27_TurnsDoNotInterleave ==
    /\ [](/\ agent_count <= 1
          /\ \A c \in Conns :
                /\ conns[c].pc \in {"run", "in_run"} => agent_count = 1
                /\ MidTurn(c) =>
                      /\ appends # <<>>
                      /\ Last(appends) = [conn |-> c, role |-> "user", to |-> "session",
                                          content |-> conns[c].msg]
          /\ \A i \in 1..Len(appends) :
                (appends[i].role = "assistant" /\ appends[i].to = "state") =>
                    /\ i > 2
                    /\ appends[i - 2] = [appends[i] EXCEPT !.role = "user"])
    /\ [][\A c \in Conns :
            MidTurn(c) => \A i \in C27_NewAppends : appends'[i].conn = c]_vars

\* a connection is in the middle of its turn while the other one, which has had
\* a turn already, holds its next message and waits for the loop
C27_Witness ==
    \E c, d \in Conns :
        /\ c # d
        /\ MidTurn(c)
        /\ conns[d].pc = "run" /\ conns[d].waiting
        /\ \E i \in 1..Len(appends) : appends[i].conn = d

(***************************************************************************)
(* C28. Every tool name the projection presents to the backend resolves in *)
(* the registry: for every ToolSpec that register accepted (including a    *)
(* name with leading or trailing whitespace), call(<name as projected>,    *)
(* args) does not return the tool-not-found error.                         *)
(***************************************************************************)
C28_ProjectedNamesResolve ==
    \A i \in 1..Len(reg_log) :
        reg_log[i].op = "call_projected" =>
            /\ ~reg_log[i].raised
            /\ reg_log[i].fn # "none"
            /\ (reg_log[i].out.ok
                  \/ reg_log[i].out.error # NotFoundError(JStr(reg_log[i].arg)))

(***************************************************************************)
(* C29. truncate_history(history, max_messages) returns at most            *)
(* max_messages messages for every max_messages >= 0: the history          *)
(* unchanged when it is no longer than max_messages, otherwise only the    *)
(* most recent messages; and when the first message is the system prompt   *)
(* (and max_messages leaves room for it) it is the first element of the    *)
(* result, once, followed by the most recent of the other messages.        *)
(***************************************************************************)
\* the last n messages of h
C29_MostRecent(h, n) == SubSeq(h, Len(h) - n + 1, Len(h))

C29_TruncationKeepsTheLimit ==
    trunc_call.called =>
        LET h == trunc_call.history
            m == trunc_call.max_messages
            out == trunc_call.out
        IN /\ Len(out) <= m
           /\ Len(h) <= m => out = h
           /\ Len(h) > m =>
                IF h[1].role = "system" /\ m >= 1
                THEN out = <<h[1]>> \o C29_MostRecent(h, m - 1)
                ELSE out = C29_MostRecent(h, m)

(***************************************************************************)
(* C30. For every declared parameter of every registered tool, the         *)
(* projected schema gives it type integer, boolean or object when its hint *)
(* text contains the matching keyword and string otherwise, lists it under *)
(* required exactly when the hint contains the required marker, and a tool *)
(* that declares no parameters is projected to the schema of an arbitrary  *)
(* object.                                                                 *)
(***************************************************************************)
\* the type a hint stands for
C30_HintType(desc) ==
    IF InHint("int", desc) THEN "integer"
    ELSE IF InHint("bool", desc) THEN "boolean"
    ELSE IF InHint("dict", desc) THEN "object"
    ELSE "string"

\* the schema `params` is the one the hints of `spec` stand for
C30_Matches(spec, params) ==
    IF spec.schema = <<>>
    THEN params = [type |-> "object"]
    ELSE /\ params.type = "object"
         /\ Len(params.properties) = Len(spec.schema)
         /\ \A j \in 1..Len(spec.schema) :
               /\ params.properties[j].field = spec.schema[j].field
               /\ params.properties[j].type = C30_HintType(spec.schema[j].desc)
               /\ (\E r \in 1..Len(params.required) :
                       params.required[r] = spec.schema[j].field)
                    <=> InHint("obligatorio", spec.schema[j].desc)

C30_SchemasFollowTheHints ==
    \A i \in 1..Len(reg_log) :
        reg_log[i].op = "project" =>
            LET ord == registry_list(reg_log[i].reg, reg_log[i].order).order
                out == reg_log[i].out
            IN /\ Len(out) = Len(ord)
               /\ \A k \in 1..Len(ord) :
                     C30_Matches(reg_log[i].reg[ord[k]], out[k].function.parameters)

====
